---- MODULE Spec2Model ----
(***************************************************************************)
(* A model of the symbolic differentiation engine (src/src/derivative.rs)  *)
(* and of the polynomial conversion engine (src/src/poly.rs).              *)
(*                                                                         *)
(* Expressions are trees of uniform records                                *)
(*   [k, id, nt, hi, n, d, args]                                           *)
(* k    : "Num", "Var", "Fun", "Pow", "Mul" or "Add"                       *)
(* id   : the Identifier of a Var or a Fun (0 otherwise)                   *)
(* nt   : the Number variant of a Num: "Natural", "Large", "FiniteField"   *)
(* hi,n : the numerator of a Num, hi * 2^16 + n; hi = 0 for every number   *)
(*        of ordinary size, hi > 0 (with 0 <= n < 2^16) for the naturals   *)
(*        around and above u32::MAX                                        *)
(* d    : the denominator of a Num                                         *)
(* args : the children; a Pow has args = <<base, exp>>                     *)
(***************************************************************************)
EXTENDS Integers, Sequences, FiniteSets

VARIABLES
    \* a caller of AtomView::derivative
    pc,        \* "idle", "ready", "done" (the call returned), "panic"
    expr,      \* the expression differentiated
    x,         \* the Identifier of the differentiation variable
    orig,      \* the expression the caller started from
    out,       \* the caller-owned output atom
    raw,       \* what the call handed to its last normalize
    ret,       \* the boolean returned
    steps,     \* the number of calls that returned
    \* a caller of AtomView::to_polynomial
    ppc,       \* "idle", "ready", "parsing", "done" (returned), "panic"
    pexpr,     \* the expression converted
    pwidth,    \* the exponent type E: "u8" or "u32"
    pvarmap,   \* the var_map argument: [given, ids]
    pbuild,    \* "debug" (overflow checks on) or "release" (wrapping)
    pvars,     \* the local vars after the first pass
    pidx,      \* the next top-level summand to parse
    ppoly,     \* the polynomial under construction: [made, var_map, terms]
    pappends,  \* the number of append_monomial calls
    pres,      \* the value returned: [status, err]
    \* a caller of OwnedAtom::from_polynomial, then of to_polynomial on out
    fpc,       \* "idle", "ready", "written", "back", "panic"
    fpoly,     \* the polynomial read: [has_map, var_map, terms]
    fout,      \* the atom written
    fback,     \* to_polynomial of fout: [given, status, err, poly]
    fdirty,    \* the dirty flag of the top-level node of out
    \* a caller of Token::to_polynomial
    tpc,       \* "idle", "ready", "parsing", "done" (returned), "panic"
    ttok,      \* the token tree converted
    twidth,    \* the exponent type E: "u8" or "u32"
    tvarmap,   \* the var_map argument, a sequence of identifiers
    tbuild,    \* "debug" (overflow checks on) or "release" (wrapping)
    tidx,      \* the next top-level summand to parse
    tpoly,     \* the polynomial under construction: [made, var_map, terms]
    tappends,  \* the number of append_monomial calls
    tres,      \* the value returned: [status, err]
    \* a caller of AtomView::to_rational_polynomial
    rpc,       \* "idle", "ready", "running", "done" (returned), "panic"
    rexpr,     \* the expression converted
    rwidth,    \* the exponent type E: "u8" or "u32"
    rbuild,    \* "debug" or "release"
    rvarmap,   \* the var_map argument: [given, ids]
    rstack,    \* the calls in progress, the innermost last
    rret,      \* the value the innermost finished call returned
    rexpands,  \* the Pow nodes expand has rewritten
    rres       \* the value returned to the caller

vars == <<pc, expr, x, orig, out, raw, ret, steps,
          ppc, pexpr, pwidth, pvarmap, pbuild, pvars, pidx, ppoly, pappends, pres,
          fpc, fpoly, fout, fback, fdirty,
          tpc, ttok, twidth, tvarmap, tbuild, tidx, tpoly, tappends, tres,
          rpc, rexpr, rwidth, rbuild, rvarmap, rstack, rret, rexpands, rres>>

(***************************************************************************)
(* Identifiers of the built-in functions (state::EXP ...), and the user    *)
(* symbols the inputs are built from.                                      *)
(***************************************************************************)
EXP == 1
LOG == 2
SIN == 3
COS == 4
DERIVATIVE == 5
SymX == DERIVATIVE + 1
SymY == DERIVATIVE + 2
SymZ == DERIVATIVE + 3
SymF == DERIVATIVE + 4

LimbBase == 2 ^ 16

(***************************************************************************)
(* Constructors: what the builders of the representation produce.          *)
(***************************************************************************)
Node(k, id, nt, hi, n, d, args) ==
    [k |-> k, id |-> id, nt |-> nt, hi |-> hi, n |-> n, d |-> d, args |-> args]

Rat(n, d) == Node("Num", 0, "Natural", 0, n, d, <<>>)
Num(n) == Rat(n, 1)
BigNat(hi, lo) == Node("Num", 0, "Natural", hi, lo, 1, <<>>)
LargeNum(hi, lo, d) == Node("Num", 0, "Large", hi, lo, d, <<>>)
FiniteFieldNum(n) == Node("Num", 0, "FiniteField", 0, n, 1, <<>>)
Var(id) == Node("Var", id, "-", 0, 0, 1, <<>>)
Fun(id, args) == Node("Fun", id, "-", 0, 0, 1, args)
Pow(b, e) == Node("Pow", 0, "-", 0, 0, 1, <<b, e>>)
Mul(args) == Node("Mul", 0, "-", 0, 0, 1, args)
Add(args) == Node("Add", 0, "-", 0, 0, 1, args)

Zero == Num(0)
One == Num(1)
MinusOne == Num(-1)

IsNum(e) == e.k = "Num"
IsZero(e) == e = Zero

(***************************************************************************)
(* Number arithmetic (BorrowedNumber::add and the normalizer's products)   *)
(* on numbers of ordinary size: reduced fractions with positive            *)
(* denominator.                                                            *)
(***************************************************************************)
Abs(i) == IF i < 0 THEN -i ELSE i

RECURSIVE Gcd(_, _)
Gcd(a, b) == IF b = 0 THEN a ELSE Gcd(b, a % b)

Reduce(n, d) ==
    LET g == Gcd(Abs(n), Abs(d))
        s == IF d < 0 THEN -1 ELSE 1
    IN  IF g = 0 THEN Rat(0, 1) ELSE Rat(s * (n \div g), s * (d \div g))

NumAdd(a, b) == Reduce(a.n * b.d + b.n * a.d, a.d * b.d)
NumMul(a, b) == Reduce(a.n * b.n, a.d * b.d)

RECURSIVE IntPow(_, _)
IntPow(b, e) == IF e = 0 THEN 1 ELSE b * IntPow(b, e - 1)

\* a rational raised to an integer power (the base is not 0 when e < 0)
NumPow(a, e) ==
    IF e >= 0 THEN Reduce(IntPow(a.n, e), IntPow(a.d, e))
    ELSE Reduce(IntPow(a.d, -e), IntPow(a.n, -e))

\* a number beyond the limbs is kept as its decimal digits, in args
KeptAsDigits(num) == num.args # <<>>

IsSmallNum(e) == e.k = "Num" /\ e.nt = "Natural" /\ e.hi = 0 /\ ~KeptAsDigits(e)
IsSmallInt(e) == IsSmallNum(e) /\ e.d = 1

(***************************************************************************)
(* Exact arithmetic on numbers of any size (BorrowedNumber::add and the    *)
(* rings' add, mul and neg).  A numerator is a sign and a magnitude; the   *)
(* magnitude is held in chunks of three decimal digits, the least          *)
(* significant chunk first and no zero chunk on top (zero is the empty     *)
(* sequence).  A denominator is a positive integer of ordinary size.       *)
(***************************************************************************)
ChunkBase == 1000

DigitOf(ch) ==
    CASE ch = "0" -> 0 [] ch = "1" -> 1 [] ch = "2" -> 2 [] ch = "3" -> 3
      [] ch = "4" -> 4 [] ch = "5" -> 5 [] ch = "6" -> 6 [] ch = "7" -> 7
      [] ch = "8" -> 8 [] ch = "9" -> 9 [] OTHER -> -1

DigitChar(d) == <<"0", "1", "2", "3", "4", "5", "6", "7", "8", "9">>[d + 1]

RECURSIVE Strip(_)
Strip(ds) == IF ds # <<>> /\ Head(ds) = "0" THEN Strip(Tail(ds)) ELSE ds

DigitAt(ds, p) == IF p >= 1 THEN DigitOf(ds[p]) ELSE 0

ChunkOf(ds, j) ==
    LET p == Len(ds) - 3 * (j - 1)
    IN  DigitAt(ds, p - 2) * 100 + DigitAt(ds, p - 1) * 10 + DigitAt(ds, p)

RECURSIVE ChunksFrom(_, _)
ChunksFrom(ds, j) ==
    IF 3 * (j - 1) >= Len(ds) THEN <<>>
    ELSE <<ChunkOf(ds, j)>> \o ChunksFrom(ds, j + 1)

\* the chunks of a digit sequence (the most significant digit first, stripped)
Chunks(ds) == ChunksFrom(ds, 1)

RECURSIVE ChunksOfNat(_)
ChunksOfNat(i) ==
    IF i = 0 THEN <<>> ELSE <<i % ChunkBase>> \o ChunksOfNat(i \div ChunkBase)

ChunkAt(cs, i) == IF i >= 1 /\ i <= Len(cs) THEN cs[i] ELSE 0

RECURSIVE TopChunk(_, _)
TopChunk(cs, k) == IF k = 0 \/ cs[k] # 0 THEN k ELSE TopChunk(cs, k - 1)

Trim(cs) == SubSeq(cs, 1, TopChunk(cs, Len(cs)))

\* the chunks from position k on of a + b
RECURSIVE ChunksAdd(_, _, _, _)
ChunksAdd(a, b, k, carry) ==
    IF k > Len(a) /\ k > Len(b) THEN (IF carry = 0 THEN <<>> ELSE <<carry>>)
    ELSE LET sum == ChunkAt(a, k) + ChunkAt(b, k) + carry
         IN  <<sum % ChunkBase>> \o ChunksAdd(a, b, k + 1, sum \div ChunkBase)

\* the chunks from position k on of a - b, for a >= b
RECURSIVE ChunksSub(_, _, _, _)
ChunksSub(a, b, k, borrow) ==
    IF k > Len(a) THEN <<>>
    ELSE LET diff == a[k] - ChunkAt(b, k) - borrow
         IN  <<(diff + ChunkBase) % ChunkBase>>
             \o ChunksSub(a, b, k + 1, IF diff < 0 THEN 1 ELSE 0)

\* the highest position where a and b of one length differ, or 0
RECURSIVE TopDiff(_, _, _)
TopDiff(a, b, k) == IF k = 0 \/ a[k] # b[k] THEN k ELSE TopDiff(a, b, k - 1)

\* a < b
ChunksLess(a, b) ==
    IF Len(a) # Len(b) THEN Len(a) < Len(b)
    ELSE LET k == TopDiff(a, b, Len(a)) IN k > 0 /\ a[k] < b[k]

\* the sum of the products a[i] * b[k + 1 - i]
RECURSIVE Convolve(_, _, _, _)
Convolve(a, b, k, i) ==
    IF i > Len(a) THEN 0
    ELSE ChunkAt(a, i) * ChunkAt(b, k + 1 - i) + Convolve(a, b, k, i + 1)

\* the chunks from position k on of a * b
RECURSIVE ChunksMul(_, _, _, _)
ChunksMul(a, b, k, carry) ==
    IF k > Len(a) + Len(b) THEN <<>>
    ELSE LET sum == Convolve(a, b, k, 1) + carry
         IN  <<sum % ChunkBase>> \o ChunksMul(a, b, k + 1, sum \div ChunkBase)

\* the remainder and the quotient of a magnitude by a positive integer of
\* ordinary size, from the chunk at position k down
RECURSIVE ModSmall(_, _, _, _)
ModSmall(cs, k, m, rem) ==
    IF k = 0 THEN rem ELSE ModSmall(cs, k - 1, m, (rem * ChunkBase + cs[k]) % m)

RECURSIVE DivSmall(_, _, _, _)
DivSmall(cs, k, m, rem) ==
    IF k = 0 THEN <<>>
    ELSE DivSmall(cs, k - 1, m, (rem * ChunkBase + cs[k]) % m)
         \o <<(rem * ChunkBase + cs[k]) \div m>>

ChunkDigits(v) ==
    <<DigitChar(v \div 100), DigitChar((v \div 10) % 10), DigitChar(v % 10)>>

RECURSIVE DigitsFrom(_, _)
DigitsFrom(cs, k) == IF k = 0 THEN <<>> ELSE ChunkDigits(cs[k]) \o DigitsFrom(cs, k - 1)

\* the decimal digits of a magnitude, the most significant first
DigitsOfChunks(cs) == Strip(DigitsFrom(cs, TopChunk(cs, Len(cs))))

\* the value of a magnitude below 10^14, in limbs
RECURSIVE LimbsFrom(_, _, _, _)
LimbsFrom(cs, k, hi, lo) ==
    IF k = 0 THEN <<hi, lo>>
    ELSE LimbsFrom(cs, k - 1, hi * ChunkBase + ((lo * ChunkBase + cs[k]) \div LimbBase),
                   (lo * ChunkBase + cs[k]) % LimbBase)

\* a signed integer
Big(neg, cs) == [neg |-> neg /\ cs # <<>>, cs |-> cs]
BigOfInt(i) == Big(i < 0, ChunksOfNat(Abs(i)))
BigNeg(u) == Big(~u.neg, u.cs)
BigMul(u, v) == Big(u.neg # v.neg, Trim(ChunksMul(u.cs, v.cs, 1, 0)))
BigAdd(u, v) ==
    IF u.neg = v.neg THEN Big(u.neg, ChunksAdd(u.cs, v.cs, 1, 0))
    ELSE IF ChunksLess(u.cs, v.cs) THEN Big(v.neg, Trim(ChunksSub(v.cs, u.cs, 1, 0)))
    ELSE Big(u.neg, Trim(ChunksSub(u.cs, v.cs, 1, 0)))

\* i64::MAX and the magnitude of i64::MIN
MaxI64Digits ==
    <<"9", "2", "2", "3", "3", "7", "2", "0", "3", "6", "8", "5", "4", "7", "7",
      "5", "8", "0", "7">>
MinI64Digits ==
    <<"9", "2", "2", "3", "3", "7", "2", "0", "3", "6", "8", "5", "4", "7", "7",
      "5", "8", "0", "8">>

\* a <= b for two digit sequences of one length
LexLeq(a, b) ==
    \/ a = b
    \/ \E i \in 1..Len(a) :
         /\ DigitOf(a[i]) < DigitOf(b[i])
         /\ \A j \in 1..(i - 1) : a[j] = b[j]

\* i64::MIN <= u <= i64::MAX
BigFitsI64(u) ==
    \/ 3 * Len(u.cs) < Len(MaxI64Digits)
    \/ /\ Len(DigitsOfChunks(u.cs)) <= Len(MaxI64Digits)
       /\ \/ Len(DigitsOfChunks(u.cs)) < Len(MaxI64Digits)
          \/ LexLeq(DigitsOfChunks(u.cs), IF u.neg THEN MinI64Digits ELSE MaxI64Digits)

\* the numerator of a number: num.hi * LimbBase + num.n, or the digits kept
Numerator(num) ==
    IF KeptAsDigits(num)
    THEN Big(Head(num.args) = "-",
             Chunks(Strip(IF Head(num.args) = "-" THEN Tail(num.args) ELSE num.args)))
    ELSE BigAdd(BigMul(BigOfInt(num.hi), BigOfInt(LimbBase)), BigOfInt(num.n))

\* the longest digit sequence whose value the limbs hold: 10^14 < 2^47
LimbDigits == 14

\* the number of a numerator and a denominator: the numerator is kept in limbs
\* when they hold it, as its digits otherwise
NumberNode(nt, u, d) ==
    IF Len(DigitsOfChunks(u.cs)) <= LimbDigits
    THEN LET limbs == LimbsFrom(u.cs, Len(u.cs), 0, 0)
         IN  IF u.neg THEN Node("Num", 0, nt, 0 - limbs[1], 0 - limbs[2], d, <<>>)
             ELSE Node("Num", 0, nt, limbs[1], limbs[2], d, <<>>)
    ELSE Node("Num", 0, nt, 0, 0, d,
              (IF u.neg THEN <<"-">> ELSE <<>>) \o DigitsOfChunks(u.cs))

\* the fraction u / d in lowest terms; the result of an operation on two
\* Natural numbers is Natural while it is within i64, and Large otherwise
Lowest(a, b, u, d) ==
    LET g == Gcd(d, ModSmall(u.cs, Len(u.cs), d, 0))
        q == Big(u.neg, Trim(DivSmall(u.cs, Len(u.cs), g, 0)))
    IN  NumberNode(IF a.nt = "Natural" /\ b.nt = "Natural" /\ BigFitsI64(q)
                   THEN "Natural" ELSE "Large",
                   q, d \div g)

\* the exact sum and the exact product of two numbers
ExactAdd(a, b) ==
    Lowest(a, b,
           BigAdd(BigMul(Numerator(a), BigOfInt(b.d)), BigMul(Numerator(b), BigOfInt(a.d))),
           a.d * b.d)

ExactMul(a, b) == Lowest(a, b, BigMul(Numerator(a), Numerator(b)), a.d * b.d)

\* a number is zero
NumIsZero(c) == Numerator(c).cs = <<>>

\* i64::MIN and i64::MAX, Naturals beyond the limbs
MinI64Text == <<"-">> \o MinI64Digits
MinI64 == Node("Num", 0, "Natural", 0, 0, 1, MinI64Text)
MaxI64 == Node("Num", 0, "Natural", 0, 0, 1, MaxI64Digits)

\* 10^15, the least power of ten beyond the limbs
TenTo15Digits ==
    <<"1", "0", "0", "0", "0", "0", "0", "0", "0", "0", "0", "0", "0", "0", "0", "0">>
TenTo15 == Node("Num", 0, "Natural", 0, 0, 1, TenTo15Digits)

(***************************************************************************)
(* A total order on expressions, used by the normalizer to sort the        *)
(* children of sums and products.  Cmp is -1, 0 or 1.                      *)
(***************************************************************************)
KindRank(k) ==
    CASE k = "Var" -> 1
      [] k = "Fun" -> 2
      [] k = "Pow" -> 3
      [] k = "Mul" -> 4
      [] k = "Add" -> 5
      [] OTHER -> 6

NtRank(nt) ==
    CASE nt = "Natural" -> 1
      [] nt = "Large" -> 2
      [] OTHER -> 3

IntCmp(a, b) == IF a < b THEN -1 ELSE IF a > b THEN 1 ELSE 0

RECURSIVE Cmp(_, _)
RECURSIVE CmpSeq(_, _)
CmpSeq(s, t) ==
    IF s = <<>> THEN (IF t = <<>> THEN 0 ELSE -1)
    ELSE IF t = <<>> THEN 1
    ELSE LET c == Cmp(Head(s), Head(t))
         IN  IF c # 0 THEN c ELSE CmpSeq(Tail(s), Tail(t))

Cmp(a, b) ==
    IF KindRank(a.k) # KindRank(b.k) THEN IntCmp(KindRank(a.k), KindRank(b.k))
    ELSE IF a.k = "Num" THEN
        IF a.nt # b.nt THEN IntCmp(NtRank(a.nt), NtRank(b.nt))
        ELSE IF a.hi # b.hi THEN IntCmp(a.hi, b.hi)
        ELSE IF a.n * b.d # b.n * a.d THEN IntCmp(a.n * b.d, b.n * a.d)
        ELSE IntCmp(a.d, b.d)
    ELSE IF a.id # b.id THEN IntCmp(a.id, b.id)
    ELSE CmpSeq(a.args, b.args)

RECURSIVE Insert(_, _)
Insert(e, s) ==
    IF s = <<>> THEN <<e>>
    ELSE IF Cmp(e, Head(s)) <= 0 THEN <<e>> \o s
    ELSE <<Head(s)>> \o Insert(e, Tail(s))

RECURSIVE SortArgs(_)
SortArgs(s) == IF s = <<>> THEN <<>> ELSE Insert(Head(s), SortArgs(Tail(s)))

(***************************************************************************)
(* The normalizer (an external collaborator of both engines): flattens     *)
(* nested sums and products, multiplies the numeric factors, merges equal  *)
(* bases of a product and like terms of a sum, drops the zeros and ones,   *)
(* sorts the children (the numeric coefficient last) and unwraps a sum or  *)
(* product of one child.                                                   *)
(***************************************************************************)
RECURSIVE Flatten(_, _)
Flatten(k, s) ==
    IF s = <<>> THEN <<>>
    ELSE (IF Head(s).k = k THEN Flatten(k, Head(s).args) ELSE <<Head(s)>>)
         \o Flatten(k, Tail(s))

Last(s) == s[Len(s)]
Front(s) == SubSeq(s, 1, Len(s) - 1)

RECURSIVE Coefficient(_)
Coefficient(s) ==
    IF s = <<>> THEN One
    ELSE IF IsSmallNum(Head(s)) THEN NumMul(Head(s), Coefficient(Tail(s)))
    ELSE Coefficient(Tail(s))

NotSmallNum(e) == ~IsSmallNum(e)

\* a factor seen as base^exp with a numeric exponent
AsPower(f) ==
    IF f.k = "Pow" /\ IsSmallNum(f.args[2])
    THEN [b |-> f.args[1], c |-> f.args[2]]
    ELSE [b |-> f, c |-> One]

\* a term seen as coefficient * rest
AsTerm(t) ==
    IF IsSmallNum(t) THEN [b |-> One, c |-> t]
    ELSE IF t.k = "Mul" /\ Len(t.args) >= 2 /\ IsSmallNum(Last(t.args))
    THEN [b |-> (IF Len(t.args) = 2 THEN t.args[1] ELSE Mul(Front(t.args))),
          c |-> Last(t.args)]
    ELSE [b |-> t, c |-> One]

\* add the pair p to the pairs acc, summing c when the b's are equal
RECURSIVE Collect(_, _)
Collect(p, acc) ==
    IF acc = <<>> THEN <<p>>
    ELSE IF Head(acc).b = p.b
    THEN <<[b |-> p.b, c |-> NumAdd(Head(acc).c, p.c)]>> \o Tail(acc)
    ELSE <<Head(acc)>> \o Collect(p, Tail(acc))

RECURSIVE CollectPowers(_, _)
CollectPowers(s, acc) ==
    IF s = <<>> THEN acc
    ELSE CollectPowers(Tail(s), Collect(AsPower(Head(s)), acc))

RECURSIVE CollectTerms(_, _)
CollectTerms(s, acc) ==
    IF s = <<>> THEN acc
    ELSE CollectTerms(Tail(s), Collect(AsTerm(Head(s)), acc))

RECURSIVE BuildPowers(_)
BuildPowers(ps) ==
    IF ps = <<>> THEN <<>>
    ELSE LET p == Head(ps)
         IN  (IF p.c = Zero THEN <<>>
              ELSE IF p.c = One THEN <<p.b>>
              ELSE <<Pow(p.b, p.c)>>) \o BuildPowers(Tail(ps))

RECURSIVE BuildTerms(_)
BuildTerms(ps) ==
    IF ps = <<>> THEN <<>>
    ELSE LET p == Head(ps)
         IN  (IF p.c = Zero THEN <<>>
              ELSE IF p.b = One THEN <<p.c>>
              ELSE IF p.c = One THEN <<p.b>>
              ELSE IF p.b.k = "Mul" THEN <<Mul(p.b.args \o <<p.c>>)>>
              ELSE <<Mul(<<p.b, p.c>>)>>) \o BuildTerms(Tail(ps))

NormPow(b, e) ==
    IF e = Zero THEN One
    ELSE IF e = One THEN b
    ELSE IF b = One THEN One
    ELSE IF IsSmallNum(b) /\ IsSmallInt(e) /\ ~(b.n = 0 /\ e.n < 0)
    THEN NumPow(b, e.n)
    ELSE Pow(b, e)

NormMul(args) ==
    LET flat == Flatten("Mul", args)
        coeff == Coefficient(flat)
        rest == SortArgs(BuildPowers(
                    CollectPowers(SelectSeq(flat, NotSmallNum), <<>>)))
        all == IF coeff = One THEN rest ELSE rest \o <<coeff>>
    IN  IF coeff = Zero THEN Zero
        ELSE IF all = <<>> THEN One
        ELSE IF Len(all) = 1 THEN all[1]
        ELSE Mul(all)

NormAdd(args) ==
    LET flat == Flatten("Add", args)
        all == SortArgs(BuildTerms(CollectTerms(flat, <<>>)))
    IN  IF all = <<>> THEN Zero
        ELSE IF Len(all) = 1 THEN all[1]
        ELSE Add(all)

RECURSIVE Normalize(_)
RECURSIVE NormalizeAll(_)
NormalizeAll(s) ==
    IF s = <<>> THEN <<>>
    ELSE <<Normalize(Head(s))>> \o NormalizeAll(Tail(s))

Normalize(e) ==
    CASE e.k = "Num" -> IF IsSmallNum(e) THEN Reduce(e.n, e.d) ELSE e
      [] e.k = "Var" -> e
      [] e.k = "Fun" -> Fun(e.id, NormalizeAll(e.args))
      [] e.k = "Pow" -> NormPow(Normalize(e.args[1]), Normalize(e.args[2]))
      [] e.k = "Mul" -> NormMul(NormalizeAll(e.args))
      [] OTHER -> NormAdd(NormalizeAll(e.args))

IsNormal(e) == Normalize(e) = e

(***************************************************************************)
(* Builder operations of the representation used by the engines.           *)
(***************************************************************************)
\* OwnedMul::extend / OwnedAdd::extend / OwnedFun::add_arg: one more child
Extend(m, a) == [m EXCEPT !.args = Append(@, a)]

RECURSIVE ExtendAll(_, _)
ExtendAll(m, s) == IF s = <<>> THEN m ELSE ExtendAll(Extend(m, Head(s)), Tail(s))

\* BorrowedNumber::add: the exact sum of two numbers
NumberAdd(a, b) == ExactAdd(a, b)

(***************************************************************************)
(* AtomView::derivative.  The result of a call is a record                 *)
(*   nz    : the boolean returned                                          *)
(*   out   : the expression written into out                               *)
(*   raw   : the expression handed to the last normalize call (out itself  *)
(*           when a literal was written)                                   *)
(*   panic : the call aborted in one of the panic!/unwrap sites            *)
(***************************************************************************)
DRes(nz, o, r) == [nz |-> nz, out |-> o, raw |-> r, panic |-> FALSE]
DZero == DRes(FALSE, Zero, Zero)
DPanic == [nz |-> FALSE, out |-> Zero, raw |-> Zero, panic |-> TRUE]

RECURSIVE Derivative(_, _)

RECURSIVE DerivAll(_, _)
DerivAll(s, v) ==
    IF s = <<>> THEN <<>> ELSE <<Derivative(Head(s), v)>> \o DerivAll(Tail(s), v)

AnyPanic(rs) == \E i \in 1..Len(rs) : rs[i].panic

\* the positions whose derivative is nonzero, in order (args_der)
RECURSIVE NonZeroFrom(_, _)
NonZeroFrom(rs, i) ==
    IF i > Len(rs) THEN <<>>
    ELSE (IF rs[i].nz THEN <<i>> ELSE <<>>) \o NonZeroFrom(rs, i + 1)

ArgsDer(rs) == NonZeroFrom(rs, 1)

Min(a, b) == IF a < b THEN a ELSE b

SpecialNames == {EXP, LOG, SIN, COS}

\* fn_der of the closed-form special functions (lines 74-108)
SpecialFnDer(self, f) ==
    CASE f.id = EXP -> self
      [] f.id = LOG -> Pow(f.args[1], MinusOne)
      [] f.id = SIN -> Fun(COS, <<f.args[1]>>)
      [] OTHER -> Extend(Extend(Mul(<<>>), Fun(SIN, <<f.args[1]>>)), MinusOne)

\* lines 110-124: the product of fn_der and the argument derivative
SpecialProduct(fnDer, argDer) ==
    IF argDer.k = "Mul" THEN Extend(argDer, fnDer)
    ELSE Extend(Extend(Mul(<<>>), fnDer), argDer)

\* mutant: the counts of the tag are carried over without the increment
RECURSIVE TagCountsDerMut(_, _, _, _)
TagCountsDerMut(fOrig, n, index, i) ==
    IF i > n THEN <<>>
    ELSE <<fOrig.args[i]>> \o TagCountsDerMut(fOrig, n, index, i + 1)

\* lines 137-158: the count arguments of the derivative tag for position index
RECURSIVE TagCountsDer(_, _, _, _)
TagCountsDer(fOrig, n, index, i) ==
    IF i > n THEN <<>>
    ELSE <<NumberAdd(fOrig.args[i], Num(IF i = index THEN 1 ELSE 0))>>
         \o TagCountsDer(fOrig, n, index, i + 1)

RECURSIVE TagCountsNew(_, _, _)
TagCountsNew(n, index, i) ==
    IF i > n THEN <<>>
    ELSE <<Num(IF i = index THEN 1 ELSE 0)>> \o TagCountsNew(n, index, i + 1)

\* the panic of line 147: a count position of the tag that holds no number
TagPanics(fOrig, f) ==
    \E i \in 1..Min(Len(fOrig.args), Len(f.args)) : fOrig.args[i].k # "Num"

\* mutant: the tag wraps the node that was differentiated (nesting the tags)
TagFunMut(fOrig, f, toDerive, isDer, index) ==
    ExtendAll(Fun(DERIVATIVE, <<>>),
              (IF isDer
               THEN TagCountsDer(fOrig, Min(Len(fOrig.args), Len(f.args)), index, 1)
               ELSE TagCountsNew(Len(f.args), index, 1)) \o <<fOrig>>)

TagFun(fOrig, f, toDerive, isDer, index) ==
    ExtendAll(Fun(DERIVATIVE, <<>>),
              (IF isDer
               THEN TagCountsDer(fOrig, Min(Len(fOrig.args), Len(f.args)), index, 1)
               ELSE TagCountsNew(Len(f.args), index, 1)) \o <<toDerive>>)

\* lines 133-171: one term per nonzero argument derivative
RECURSIVE TagTerms(_, _, _, _, _, _)
TagTerms(fOrig, f, toDerive, isDer, rs, idx) ==
    IF idx = <<>> THEN <<>>
    ELSE <<Extend(Extend(Mul(<<>>),
                  TagFun(fOrig, f, toDerive, isDer, Head(idx))),
                  rs[Head(idx)].out)>>
         \o TagTerms(fOrig, f, toDerive, isDer, rs, Tail(idx))

DerivFunOf(self, f, toDerive, isDer, v) ==
    LET rs == DerivAll(f.args, v)
        idx == ArgsDer(rs)
    IN  IF AnyPanic(rs) THEN DPanic
        ELSE IF idx = <<>> THEN DZero
        ELSE IF Len(f.args) = 1 /\ f.id \in SpecialNames
        THEN LET prod == SpecialProduct(SpecialFnDer(self, f), rs[Last(idx)].out)
             IN  DRes(TRUE, Normalize(prod), prod)
        ELSE IF isDer /\ TagPanics(self, f) THEN DPanic
        ELSE LET sum == Add(TagTerms(self, f, toDerive, isDer, rs, idx))
             IN  DRes(TRUE, Normalize(sum), sum)

\* lines 39-175
DerivFun(self, v) ==
    IF self.id = DERIVATIVE
    THEN IF self.args = <<>> THEN DPanic
         ELSE IF Last(self.args).k # "Fun" THEN DPanic
         ELSE DerivFunOf(self, Last(self.args), Last(self.args), TRUE, v)
    ELSE DerivFunOf(self, self, self, FALSE, v)

\* lines 193-216: exp_der * self * log(base), before normalization
ExpDerContrib(self, base, expDer) ==
    LET logBase == Extend(Fun(LOG, <<>>), base)
    IN  IF expDer.k = "Mul" THEN Extend(Extend(expDer, self), logBase)
        ELSE Extend(Extend(Extend(Mul(<<>>), self), expDer), logBase)

\* mutant: the exponent is not lowered
NewExpMut(exp) == exp

\* lines 228-250: the exponent of the base in the base contribution
NewExp(exp) ==
    IF exp.k = "Num" THEN NumberAdd(exp, MinusOne)
    ELSE Extend(Extend(Add(<<>>), exp), MinusOne)

\* lines 224-258: base_der * exp * base^new_exp, before normalization
BaseDerContrib(base, exp, baseDer) ==
    Extend(Extend(Extend(Mul(<<>>), baseDer), exp), Pow(base, NewExp(exp)))

\* lines 176-274
DerivPow(self, v) ==
    LET base == self.args[1]
        exp == self.args[2]
        re == Derivative(exp, v)
        rb == Derivative(base, v)
        expRaw == ExpDerContrib(self, base, re.out)
        mulH == BaseDerContrib(base, exp, rb.out)
        both == Extend(Extend(Add(<<>>), mulH), Normalize(expRaw))
    IN  IF re.panic \/ rb.panic THEN DPanic
        ELSE IF ~re.nz /\ ~rb.nz THEN DZero
        ELSE IF re.nz /\ ~rb.nz THEN DRes(TRUE, Normalize(expRaw), expRaw)
        ELSE IF re.nz THEN DRes(TRUE, Normalize(both), both)
        ELSE DRes(TRUE, Normalize(mulH), mulH)

\* lines 284-289, 296-301: the siblings kept beside the child arg
RECURSIVE OtherArgs(_, _)
OtherArgs(args, arg) ==
    IF args = <<>> THEN <<>>
    ELSE (IF Head(args) # arg THEN <<Head(args)>> ELSE <<>>)
         \o OtherArgs(Tail(args), arg)

\* lines 283-304: the product emitted for position i
MulTerm(args, i, argDer) ==
    IF argDer.k = "Mul" THEN ExtendAll(argDer, OtherArgs(args, args[i]))
    ELSE ExtendAll(Extend(Mul(<<>>), argDer), OtherArgs(args, args[i]))

RECURSIVE MulTerms(_, _, _)
MulTerms(args, rs, idx) ==
    IF idx = <<>> THEN <<>>
    ELSE <<MulTerm(args, Head(idx), rs[Head(idx)].out)>>
         \o MulTerms(args, rs, Tail(idx))

\* lines 275-318
DerivMul(self, v) ==
    LET rs == DerivAll(self.args, v)
        idx == ArgsDer(rs)
        sum == Add(MulTerms(self.args, rs, idx))
    IN  IF AnyPanic(rs) THEN DPanic
        ELSE IF idx = <<>> THEN DZero
        ELSE DRes(TRUE, Normalize(sum), sum)

RECURSIVE AddTerms(_, _)
AddTerms(rs, idx) ==
    IF idx = <<>> THEN <<>>
    ELSE <<rs[Head(idx)].out>> \o AddTerms(rs, Tail(idx))

\* mutant: the sum forgets the non_zero flag
DerivAddMut(self, v) ==
    LET rs == DerivAll(self.args, v)
        idx == ArgsDer(rs)
        sum == Add(AddTerms(rs, idx))
    IN  IF AnyPanic(rs) THEN DPanic
        ELSE DRes(TRUE, Normalize(sum), sum)

\* lines 319-340
DerivAdd(self, v) ==
    LET rs == DerivAll(self.args, v)
        idx == ArgsDer(rs)
        sum == Add(AddTerms(rs, idx))
    IN  IF AnyPanic(rs) THEN DPanic
        ELSE IF idx = <<>> THEN DZero
        ELSE DRes(TRUE, Normalize(sum), sum)

\* lines 28-38
DerivVar(self, v) == IF self.id = v THEN DRes(TRUE, One, One) ELSE DZero

Derivative(e, v) ==
    CASE e.k = "Num" -> DZero
      [] e.k = "Var" -> DerivVar(e, v)
      [] e.k = "Fun" -> DerivFun(e, v)
      [] e.k = "Pow" -> DerivPow(e, v)
      [] e.k = "Mul" -> DerivMul(e, v)
      [] OTHER -> DerivAdd(e, v)

(***************************************************************************)
(* Bounds of the model.                                                    *)
(***************************************************************************)
MaxNum == 2       \* the numbers of the inputs are -1 .. MaxNum
MaxSteps == 3     \* how often a caller feeds a derivative back into derivative

(***************************************************************************)
(* The inputs of the derivative engine: expressions in canonical form, as  *)
(* the parser and the normalizer hand them out, and products built with    *)
(* the builders that were not normalized (DirtyMuls), which the views      *)
(* accept as well.                                                         *)
(***************************************************************************)
VX == Var(SymX)
VY == Var(SymY)
Nums == {Num(i) : i \in -1..MaxNum}
Leaves == Nums \cup {VX, VY}

UnaryArgs == {VX, VY, Num(MaxNum), Pow(VX, Num(MaxNum))}
UnaryFuns == {Fun(g, <<u>>) : g \in SpecialNames \cup {SymF}, u \in UnaryArgs}
BinaryArgs == {VX, VY, One, Pow(VX, Num(MaxNum))}
BinaryFuns == {Fun(SymF, <<a, b>>) : a \in BinaryArgs, b \in BinaryArgs}
TagCounts == {<<One, Zero>>, <<Zero, One>>, <<Num(MaxNum), One>>}
\* numbers beyond the limbs, at the edges of i64
BigNums == {TenTo15, MaxI64, MinI64}
TaggedFuns ==
    {Fun(DERIVATIVE, <<c, g>>) : c \in {One, Num(MaxNum)}, g \in UnaryFuns}
    \cup {Fun(DERIVATIVE, <<c, Fun(SymF, <<VX>>)>>) : c \in BigNums}
    \cup {Fun(DERIVATIVE, c \o <<g>>) : c \in TagCounts, g \in BinaryFuns}
\* derivative nodes that break the invariant of the tag
BadTags ==
    {Fun(DERIVATIVE, <<>>), Fun(DERIVATIVE, <<VX>>),
     Fun(DERIVATIVE, <<VX, Fun(SymF, <<VX>>)>>),
     Fun(DERIVATIVE, <<VX, Fun(SymF, <<VY>>)>>),
     Fun(DERIVATIVE, <<One, Fun(SymF, <<VX, VY>>)>>),
     Fun(DERIVATIVE, <<One, Zero, Fun(SymF, <<VX>>)>>)}

SinX == Fun(SIN, <<VX>>)
CosX == Fun(COS, <<VX>>)
PowArgs == Leaves \cup {SinX, CosX, Fun(SymF, <<VY>>)}
Pows == {Pow(b, e) : b \in PowArgs, e \in PowArgs} \cup {Pow(VX, e) : e \in BigNums}
MulArgs == {VX, VY, Num(MaxNum), SinX, Pow(VX, Num(MaxNum)), Pow(VX, VY)}
Muls == {Mul(<<a, b>>) : a \in MulArgs, b \in MulArgs}
        \cup {Mul(<<a, b, c>>) : a \in MulArgs, b \in MulArgs, c \in MulArgs}
AddArgs == {VX, VY, One, Pow(SinX, Num(2)), Pow(CosX, Num(2)),
            Mul(<<VX, VY>>), Mul(<<VX, MinusOne>>), Fun(SymF, <<VX, VY>>)}
Adds == {Add(<<a, b>>) : a \in AddArgs, b \in AddArgs}

Candidates ==
    Leaves \cup UnaryFuns \cup BinaryFuns \cup TaggedFuns \cup Pows \cup Muls
    \cup Adds
CleanInputs == {e \in Candidates : IsNormal(e)}
DirtyMuls == {e \in Muls : ~IsNormal(e) /\ \A i \in 1..Len(e.args) : e.args[i].k # "Num"}
DerivInputs == CleanInputs \cup DirtyMuls \cup BadTags

(***************************************************************************)
(* The polynomial conversion is idle while the derivative engine runs.     *)
(***************************************************************************)
NoPoly == [made |-> FALSE, var_map |-> <<>>, terms |-> <<>>]
NoResult == [status |-> "none", err |-> ""]

PolyIdle ==
    /\ ppc = "idle"
    /\ pexpr = Zero
    /\ pwidth = "u32"
    /\ pvarmap = [given |-> FALSE, ids |-> <<>>]
    /\ pbuild = "debug"
    /\ pvars = <<>>
    /\ pidx = 0
    /\ ppoly = NoPoly
    /\ pappends = 0
    /\ pres = NoResult

polyVars == <<ppc, pexpr, pwidth, pvarmap, pbuild, pvars, pidx, ppoly, pappends, pres>>
derivVars == <<pc, expr, x, orig, out, raw, ret, steps>>

(***************************************************************************)
(* The other callers are idle as well.                                     *)
(***************************************************************************)
NoInputPoly == [has_map |-> FALSE, var_map |-> <<>>, terms |-> <<>>]
NoBack == [given |-> FALSE, status |-> "none", err |-> "", poly |-> NoPoly]

FromIdle ==
    /\ fpc = "idle"
    /\ fpoly = NoInputPoly
    /\ fout = Zero
    /\ fback = NoBack
    /\ fdirty = FALSE

fromVars == <<fpc, fpoly, fout, fback, fdirty>>

NoToken == [t |-> "Number", text |-> <<"0">>, op |-> "-", args |-> <<>>]

TokIdle ==
    /\ tpc = "idle"
    /\ ttok = NoToken
    /\ twidth = "u32"
    /\ tvarmap = <<>>
    /\ tbuild = "debug"
    /\ tidx = 0
    /\ tpoly = NoPoly
    /\ tappends = 0
    /\ tres = NoResult

tokVars == <<tpc, ttok, twidth, tvarmap, tbuild, tidx, tpoly, tappends, tres>>

\* what each caller leaves alone, and where the others stand meanwhile
\* a rational polynomial as the collaborator calls that build it:
\* [op, poly, args, n]
NoRational == [op |-> "none", poly |-> NoPoly, args |-> <<>>, n |-> Zero]

NoReturn == [status |-> "none", err |-> "", val |-> NoRational]

RatIdle ==
    /\ rpc = "idle"
    /\ rexpr = Zero
    /\ rwidth = "u32"
    /\ rbuild = "debug"
    /\ rvarmap = [given |-> FALSE, ids |-> <<>>]
    /\ rstack = <<>>
    /\ rret = NoReturn
    /\ rexpands = <<>>
    /\ rres = NoReturn

ratVars == <<rpc, rexpr, rwidth, rbuild, rvarmap, rstack, rret, rexpands, rres>>

exceptDeriv == <<polyVars, fromVars, tokVars, ratVars>>
exceptPoly == <<derivVars, fromVars, tokVars, ratVars>>
exceptFrom == <<derivVars, polyVars, tokVars, ratVars>>
exceptTok == <<derivVars, polyVars, fromVars, ratVars>>
exceptRat == <<derivVars, polyVars, fromVars, tokVars>>

(***************************************************************************)
(* The derivative engine as a state machine: a caller holds an expression  *)
(* expr, calls derivative(expr, x, out), and may call it again on the      *)
(* result.                                                                 *)
(***************************************************************************)
InitDeriv ==
    /\ pc = "ready"
    /\ expr \in DerivInputs
    /\ x \in {SymX, SymY}
    /\ orig = expr
    /\ out = Zero
    /\ raw = Zero
    /\ ret = FALSE
    /\ steps = 0
    /\ PolyIdle
    /\ FromIdle
    /\ TokIdle
    /\ RatIdle

\* one call of AtomView::derivative that returns
Differentiate ==
    /\ pc = "ready"
    /\ ~Derivative(expr, x).panic
    /\ pc' = "done"
    /\ out' = Derivative(expr, x).out
    /\ raw' = Derivative(expr, x).raw
    /\ ret' = Derivative(expr, x).nz
    /\ steps' = steps + 1
    /\ UNCHANGED <<expr, x, orig>>
    /\ UNCHANGED exceptDeriv

\* one call of AtomView::derivative that aborts
DifferentiatePanics ==
    /\ pc = "ready"
    /\ Derivative(expr, x).panic
    /\ pc' = "panic"
    /\ UNCHANGED <<expr, x, orig, out, raw, ret, steps>>
    /\ UNCHANGED exceptDeriv

\* the caller differentiates the result once more
Reapply ==
    /\ pc = "done"
    /\ steps < MaxSteps
    /\ pc' = "ready"
    /\ expr' = out
    /\ UNCHANGED <<x, orig, out, raw, ret, steps>>
    /\ UNCHANGED exceptDeriv

NextDeriv == Differentiate \/ DifferentiatePanics \/ Reapply

SpecDeriv == InitDeriv /\ [][NextDeriv]_vars

(***************************************************************************)
(* Vocabulary of the properties of the derivative engine.                  *)
(***************************************************************************)
\* the children of a node; a number has none
Children(e) == IF e.k = "Num" THEN <<>> ELSE e.args

RECURSIVE Occurs(_, _)
Occurs(v, e) ==
    \/ e.k = "Var" /\ e.id = v
    \/ \E i \in 1..Len(Children(e)) : Occurs(v, e.args[i])

\* every derivative node holds numbers followed by one function, one number
\* per argument of that function
RECURSIVE WellFormed(_)
WellFormed(e) ==
    /\ \A i \in 1..Len(Children(e)) : WellFormed(e.args[i])
    /\ (e.k = "Fun" /\ e.id = DERIVATIVE) =>
         /\ e.args # <<>>
         /\ Last(e.args).k = "Fun"
         /\ Last(e.args).id # DERIVATIVE
         /\ Len(e.args) = Len(Last(e.args).args) + 1
         /\ \A i \in 1..(Len(e.args) - 1) : e.args[i].k = "Num"

\* no derivative node has a derivative node as its last argument
RECURSIVE NoNestedTag(_)
NoNestedTag(e) ==
    /\ \A i \in 1..Len(Children(e)) : NoNestedTag(e.args[i])
    /\ (e.k = "Fun" /\ e.id = DERIVATIVE /\ e.args # <<>>) =>
         ~(Last(e.args).k = "Fun" /\ Last(e.args).id = DERIVATIVE)

\* the factors of a product, nested products opened, in canonical order:
\* two products are the same product of factors iff these are equal
Factors(e) == SortArgs(Flatten("Mul", <<e>>))
FactorsOf(s) == SortArgs(Flatten("Mul", s))

RECURSIVE Ascending(_)
Ascending(S) ==
    IF S = {} THEN <<>>
    ELSE LET m == CHOOSE m \in S : \A y \in S : m <= y
         IN  <<m>> \o Ascending(S \ {m})

\* the positions of the children of args whose derivative is nonzero
NonZeroPositions(args, v) ==
    Ascending({i \in 1..Len(args) : Derivative(args[i], v).nz})

AllBut(args, i) == SubSeq(args, 1, i - 1) \o SubSeq(args, i + 1, Len(args))

Done == pc = "done"

(***************************************************************************)
(* C1: derivative returns true iff the expression written into out is not  *)
(* the literal 0, and out is Num(0/1) whenever it returns false, on every  *)
(* return path.                                                            *)
(***************************************************************************)
C1_TrueIffOutNonzero ==
    Done => /\ (ret <=> out # Zero)
            /\ (~ret => out = Zero)

(***************************************************************************)
(* C2: for a normalized expression e (its derivative tags well formed),    *)
(* the derivative is zero (false is returned and out = 0) iff Var(x)       *)
(* occurs nowhere in e.                                                    *)
(***************************************************************************)
C2_ZeroIffNoOccurrence ==
    (Done /\ IsNormal(expr) /\ WellFormed(expr)) =>
        ((~ret /\ out = Zero) <=> ~Occurs(x, expr))

C2_Witness ==
    /\ Done /\ IsNormal(expr) /\ WellFormed(expr)
    /\ expr.k = "Add" /\ Occurs(SymY, expr) /\ x = SymX
    /\ ~ret /\ out = Zero

(***************************************************************************)
(* C3: for a Mul of n >= 2 children the sum handed to the normalizer has   *)
(* one product per position i with a nonzero child derivative, in order,   *)
(* holding d(arg_i)/dx and every child at a position j # i exactly once,   *)
(* also when that child equals arg_i; with no nonzero child derivative the *)
(* result is 0 and false.                                                  *)
(***************************************************************************)
C3_MulKeepsEverySibling ==
    (Done /\ expr.k = "Mul" /\ Len(expr.args) >= 2) =>
        LET pos == NonZeroPositions(expr.args, x)
        IN  IF pos = <<>> THEN ~ret /\ out = Zero
            ELSE /\ ret
                 /\ raw.k = "Add"
                 /\ Len(raw.args) = Len(pos)
                 /\ \A j \in 1..Len(pos) :
                       Factors(raw.args[j]) =
                       FactorsOf(<<Derivative(expr.args[pos[j]], x).out>>
                                 \o AllBut(expr.args, pos[j]))
                 /\ out = Normalize(raw)

(***************************************************************************)
(* C4: for Pow(b, e) with db, de the derivatives of b and e: both zero     *)
(* gives 0 and false; only de nonzero gives normalize(de * Pow(b,e) *      *)
(* log(b)); only db nonzero gives normalize(db * e * b^(e-1)); both        *)
(* nonzero gives the normalized sum of the two; true in the last three.    *)
(***************************************************************************)
\* db * e * b^(e-1); e - 1 is a number when e is one
PowByBase(b, e, db) ==
    Mul(<<db, e, Pow(b, IF e.k = "Num" THEN ExactAdd(e, MinusOne) ELSE Add(<<e, MinusOne>>))>>)
PowByExp(b, e, de) == Mul(<<de, Pow(b, e), Fun(LOG, <<b>>)>>)

C4_PowRule ==
    (Done /\ expr.k = "Pow") =>
        LET b == expr.args[1]
            e == expr.args[2]
            db == Derivative(b, x)
            de == Derivative(e, x)
        IN  CASE ~db.nz /\ ~de.nz -> ~ret /\ out = Zero
              [] ~db.nz /\ de.nz ->
                    ret /\ out = Normalize(PowByExp(b, e, de.out))
              [] db.nz /\ ~de.nz ->
                    ret /\ out = Normalize(PowByBase(b, e, db.out))
              [] OTHER ->
                    ret /\ out = Normalize(Add(<<PowByBase(b, e, db.out),
                                                 PowByExp(b, e, de.out)>>))

C4_Witness ==
    /\ Done /\ expr = Pow(VX, VX) /\ x = SymX /\ ret
    /\ out = Normalize(Add(<<Mul(<<VX, Pow(VX, Add(<<VX, MinusOne>>))>>),
                             Mul(<<Pow(VX, VX), Fun(LOG, <<VX>>)>>)>>))

(***************************************************************************)
(* C5: with g the function whose arguments are differentiated (the Fun     *)
(* node, or the last argument of a derivative tag), g of one argument u    *)
(* named exp, log, sin or cos and du nonzero, the product handed to the    *)
(* normalizer is exp(u)*du, u^(-1)*du, cos(u)*du, (-1)*sin(u)*du, and true *)
(* is returned, for g itself and for a derivative tag wrapping g.          *)
(***************************************************************************)
InnerFun(e) == IF e.id = DERIVATIVE THEN Last(e.args) ELSE e

IsSpecialCase(e) ==
    /\ e.k = "Fun"
    /\ (e.id = DERIVATIVE => (WellFormed(e) /\ e.args # <<>>))
    /\ Len(InnerFun(e).args) = 1
    /\ InnerFun(e).id \in SpecialNames

ClosedForm(g) ==
    LET u == g.args[1]
    IN  CASE g.id = EXP -> Fun(EXP, <<u>>)
          [] g.id = LOG -> Pow(u, MinusOne)
          [] g.id = SIN -> Fun(COS, <<u>>)
          [] OTHER -> Mul(<<MinusOne, Fun(SIN, <<u>>)>>)

C5_SpecialFunctions ==
    (Done /\ IsSpecialCase(expr)
          /\ Derivative(InnerFun(expr).args[1], x).nz) =>
        /\ ret
        /\ Factors(raw) =
           FactorsOf(<<ClosedForm(InnerFun(expr)),
                       Derivative(InnerFun(expr).args[1], x).out>>)
        /\ out = Normalize(raw)

(***************************************************************************)
(* C6: in the general Fun case (g of k arguments, not a one-argument exp,  *)
(* log, sin, cos) the sum handed to the normalizer has, for each position  *)
(* i with dg_i nonzero, one term derivative(n_1..n_k, g) * dg_i: k counts  *)
(* followed by g; for a plain function n_i = 1 and the others 0, for a     *)
(* derivative tag with counts m the counts are m with m_i + 1 at i, and    *)
(* the last argument is g, never a derivative node.                        *)
(***************************************************************************)
IsGeneralCase(e) ==
    /\ e.k = "Fun"
    /\ WellFormed(e)
    /\ ~(Len(InnerFun(e).args) = 1 /\ InnerFun(e).id \in SpecialNames)

ExpectedCount(e, j, i) ==
    IF e.id = DERIVATIVE THEN ExactAdd(e.args[j], Num(IF j = i THEN 1 ELSE 0))
    ELSE Num(IF j = i THEN 1 ELSE 0)

ExpectedTag(e, i) ==
    Fun(DERIVATIVE,
        [j \in 1..Len(InnerFun(e).args) |-> ExpectedCount(e, j, i)]
        \o <<InnerFun(e)>>)

C6_DerivativeTag ==
    (Done /\ IsGeneralCase(expr)) =>
        LET g == InnerFun(expr)
            pos == NonZeroPositions(g.args, x)
        IN  IF pos = <<>> THEN ~ret /\ out = Zero
            ELSE /\ ret
                 /\ raw.k = "Add"
                 /\ Len(raw.args) = Len(pos)
                 /\ \A j \in 1..Len(pos) :
                       /\ raw.args[j].k = "Mul"
                       /\ Factors(raw.args[j]) =
                          FactorsOf(<<ExpectedTag(expr, pos[j]),
                                      Derivative(g.args[pos[j]], x).out>>)
                 /\ out = Normalize(raw)

C6_Witness ==
    /\ Done /\ x = SymX
    /\ expr = Fun(DERIVATIVE, <<One, Zero, Fun(SymF, <<VX, VY>>)>>)
    /\ ret
    /\ out = Fun(DERIVATIVE, <<Num(2), Zero, Fun(SymF, <<VX, VY>>)>>)

(***************************************************************************)
(* C7: for an unknown function f applied to x at one position p, its other *)
(* arguments independent of x, n >= 1 successive calls of derivative(., x) *)
(* yield the derivative tag over f with count n at p and 0 elsewhere; and  *)
(* after any number of calls no derivative node has a derivative node as   *)
(* its last argument.                                                      *)
(***************************************************************************)
XPositions(e, v) == {i \in 1..Len(e.args) : Occurs(v, e.args[i])}

IsUnknownFunOfX(e, v) ==
    /\ e.k = "Fun"
    /\ e.id \notin SpecialNames \cup {DERIVATIVE}
    /\ Cardinality(XPositions(e, v)) = 1
    /\ \A i \in XPositions(e, v) : e.args[i] = Var(v)

C7_RepeatedDerivative ==
    (Done /\ IsUnknownFunOfX(orig, x)) =>
        /\ ret
        /\ out = Fun(DERIVATIVE,
                     [j \in 1..Len(orig.args) |->
                         Num(IF j \in XPositions(orig, x) THEN steps ELSE 0)]
                     \o <<orig>>)
        /\ NoNestedTag(out)

C7_Witness ==
    /\ Done /\ x = SymX /\ steps = MaxSteps
    /\ orig = Fun(SymF, <<VY, VX>>)
    /\ out = Fun(DERIVATIVE, <<Zero, Num(MaxSteps), orig>>)

(***************************************************************************)
(* Exponents (trait Exponent, poly.rs:30-89).  An exponent value is kept   *)
(* in two limbs [hi, lo], hi * 2^16 + lo with 0 <= lo < 2^16, so that the  *)
(* whole range of u32 is represented exactly.                              *)
(***************************************************************************)
U8Max == 255

ExpVal(hi, lo) == [hi |-> hi, lo |-> lo]
ExpZero == ExpVal(0, 0)
ExpOfInt(i) == ExpVal(i \div LimbBase, i % LimbBase)

\* the limbs of a sum, before any check of the width
LimbSum(a, b) ==
    ExpVal(a.hi + b.hi + ((a.lo + b.lo) \div LimbBase), (a.lo + b.lo) % LimbBase)

FitsWidth(E, v) ==
    IF E = "u8" THEN v.hi = 0 /\ v.lo <= U8Max ELSE v.hi < LimbBase

\* the value kept by a wrapping addition
Wrap(E, v) ==
    IF E = "u8" THEN ExpVal(0, v.lo % (U8Max + 1)) ELSE ExpVal(v.hi % LimbBase, v.lo)

\* Exponent::from_u32 (lines 51-53, 74-80): does the conversion panic?
FromU32Panics(E, v) == E = "u8" /\ ~(v.hi = 0 /\ v.lo < U8Max)

\* `+=` on an exponent (lines 217, 233, 236): [val, panic].  An overflow
\* panics in a build with overflow checks and wraps in one without.
AddAssign(E, build, a, b) ==
    LET sum == LimbSum(a, b)
    IN  IF FitsWidth(E, sum) THEN [val |-> sum, panic |-> FALSE]
        ELSE IF build = "debug" THEN [val |-> a, panic |-> TRUE]
        ELSE [val |-> Wrap(E, sum), panic |-> FALSE]

\* 0 <= numerator <= u32::MAX (lines 149, 156)
NumerFitsU32(num) ==
    /\ ~KeptAsDigits(num)
    /\ num.hi >= 0
    /\ num.n >= 0
    /\ num.hi + (num.n \div LimbBase) < LimbBase

\* mutant: the numerator is cut to its low byte
NumerAsU32Mut(num) == ExpVal(0, num.n % (U8Max + 1))

\* the low 32 bits of the magnitude written by the digits ds, after the limbs
\* <<hi, lo>> of the digits read so far
RECURSIVE LowLimbs(_, _, _)
LowLimbs(ds, hi, lo) ==
    IF ds = <<>> THEN ExpVal(hi, lo)
    ELSE LowLimbs(Tail(ds),
                  (hi * 10 + ((lo * 10 + DigitOf(Head(ds))) \div LimbBase)) % LimbBase,
                  (lo * 10 + DigitOf(Head(ds))) % LimbBase)

\* `r as u32` (line 233) keeps the low 32 bits of r in two's complement;
\* `r.numer().to_u32().unwrap()` (line 236) is the numerator when it fits
NumerAsU32(num) ==
    LET neg == IF KeptAsDigits(num) THEN Head(num.args) = "-"
               ELSE num.hi < 0 \/ num.n < 0
        m == IF KeptAsDigits(num)
             THEN LowLimbs(IF neg THEN Tail(num.args) ELSE num.args, 0, 0)
             ELSE ExpVal((Abs(num.hi) + (Abs(num.n) \div LimbBase)) % LimbBase,
                         Abs(num.n) % LimbBase)
    IN  IF ~neg THEN m
        ELSE IF m.lo = 0 THEN ExpVal((LimbBase - m.hi) % LimbBase, 0)
        ELSE ExpVal(LimbBase - 1 - m.hi, LimbBase - m.lo)

(***************************************************************************)
(* The error values of to_polynomial: &'static str.                        *)
(***************************************************************************)
ErrFiniteField == "Finite field not supported in conversion routine"
ErrUnknownVariable == "Expression contains variable that is not in variable map"
ErrFunction == "function not supported in polynomial"
ErrBase == "base must be a variable"
ErrExponentNatural == "Exponent negative or a fraction"
ErrExponentLarge == "Exponent too large or negative or a fraction"
ErrSubexpression == "Expression may not contain subexpressions"

Contains(s, id) == \E i \in 1..Len(s) : s[i] = id
Position(s, id) ==
    IF Contains(s, id) THEN CHOOSE i \in 1..Len(s) :
                                 s[i] = id /\ \A j \in 1..(i - 1) : s[j] # id
    ELSE 0

(***************************************************************************)
(* First pass: check_factor, check_term (lines 101-202).  A result is      *)
(* [status, err, vars] with status "ok", "err" or "panic".                 *)
(***************************************************************************)
CheckOk(vs) == [status |-> "ok", err |-> "", vars |-> vs]
CheckErr(msg) == [status |-> "err", err |-> msg, vars |-> <<>>]
CheckPanic == [status |-> "panic", err |-> "", vars |-> <<>>]

\* mutant: a variable outside a supplied map is added to it
CheckVarMut(v, vs, allowNew) ==
    IF ~Contains(vs, v.id) THEN CheckOk(Append(vs, v.id)) ELSE CheckOk(vs)

\* lines 113-123 and 128-139
CheckVar(v, vs, allowNew) ==
    IF ~Contains(vs, v.id)
    THEN IF ~allowNew THEN CheckErr(ErrUnknownVariable)
         ELSE CheckOk(Append(vs, v.id))
    ELSE CheckOk(vs)

\* lines 143-164
CheckExp(exp, vs) ==
    IF exp.k = "Num"
    THEN CASE exp.nt = "FiniteField" -> CheckErr(ErrFiniteField)
           [] exp.nt = "Natural" ->
                IF exp.d = 1 /\ NumerFitsU32(exp) THEN CheckOk(vs)
                ELSE CheckErr(ErrExponentNatural)
           [] OTHER ->
                IF exp.d = 1 /\ NumerFitsU32(exp) THEN CheckOk(vs)
                ELSE CheckErr(ErrExponentLarge)
    ELSE CheckErr(ErrBase)

\* mutant: the base of a power is not collected
CheckPowMut(f, vs, allowNew) ==
    IF f.args[1].k = "Var" THEN CheckExp(f.args[2], vs) ELSE CheckErr(ErrBase)

\* lines 125-165
CheckPow(f, vs, allowNew) ==
    IF f.args[1].k = "Var"
    THEN LET r == CheckVar(f.args[1], vs, allowNew)
         IN  IF r.status = "ok" THEN CheckExp(f.args[2], r.vars) ELSE r
    ELSE CheckErr(ErrBase)

\* mutant: a sum is let through as a factor
CheckFactorMut(f, vs, allowNew) ==
    CASE f.k = "Num" ->
            IF f.nt = "FiniteField" THEN CheckErr(ErrFiniteField) ELSE CheckOk(vs)
      [] f.k = "Var" -> CheckVar(f, vs, allowNew)
      [] f.k = "Fun" -> CheckErr(ErrFunction)
      [] f.k = "Pow" -> CheckPow(f, vs, allowNew)
      [] f.k = "Add" -> CheckOk(vs)
      [] OTHER -> CheckPanic

\* lines 101-169
CheckFactor(f, vs, allowNew) ==
    CASE f.k = "Num" ->
            IF f.nt = "FiniteField" THEN CheckErr(ErrFiniteField) ELSE CheckOk(vs)
      [] f.k = "Var" -> CheckVar(f, vs, allowNew)
      [] f.k = "Fun" -> CheckErr(ErrFunction)
      [] f.k = "Pow" -> CheckPow(f, vs, allowNew)
      [] f.k = "Add" -> CheckErr(ErrSubexpression)
      [] OTHER -> CheckPanic

\* lines 178-180: the factors in order, leaving at the first error
RECURSIVE CheckFactors(_, _, _)
CheckFactors(fs, vs, allowNew) ==
    IF fs = <<>> THEN CheckOk(vs)
    ELSE LET r == CheckFactor(Head(fs), vs, allowNew)
         IN  IF r.status = "ok" THEN CheckFactors(Tail(fs), r.vars, allowNew)
             ELSE r

\* lines 171-185
CheckTerm(term, vs, allowNew) ==
    IF term.k = "Mul" THEN CheckFactors(term.args, vs, allowNew)
    ELSE CheckFactor(term, vs, allowNew)

RECURSIVE CheckTerms(_, _, _)
CheckTerms(ts, vs, allowNew) ==
    IF ts = <<>> THEN CheckOk(vs)
    ELSE LET r == CheckTerm(Head(ts), vs, allowNew)
         IN  IF r.status = "ok" THEN CheckTerms(Tail(ts), r.vars, allowNew)
             ELSE r

\* the top-level summands (lines 191-202, 275-282)
TopTerms(e) == IF e.k = "Add" THEN e.args ELSE <<e>>

\* lines 187-202
FirstPass(e, varMap) ==
    CheckTerms(TopTerms(e), IF varMap.given THEN varMap.ids ELSE <<>>,
               ~varMap.given)

(***************************************************************************)
(* The coefficient ring (the rationals): one, from_number, mul_assign,     *)
(* add, is_zero.  A coefficient is a number.                               *)
(***************************************************************************)
RingMul(a, b) == ExactMul(a, b)

RingAdd(a, b) == NumberAdd(a, b)

(***************************************************************************)
(* Second pass: parse_factor, parse_term (lines 204-266).  The state of a  *)
(* term is [coeff, exps, panic].                                           *)
(***************************************************************************)
TermStart(vs) ==
    [coeff |-> One, exps |-> [i \in 1..Len(vs) |-> ExpZero], panic |-> FALSE]

TermPanic(t) == [t EXCEPT !.panic = TRUE]

\* exponents[index] += E::from_u32(v)
AddExponent(t, index, v, E, build) ==
    IF index = 0 \/ FromU32Panics(E, v) THEN TermPanic(t)
    ELSE LET r == AddAssign(E, build, t.exps[index], v)
         IN  IF r.panic THEN TermPanic(t)
             ELSE [t EXCEPT !.exps[index] = r.val]

\* lines 204-245
ParseFactor(f, vs, t, E, build) ==
    CASE f.k = "Num" -> [t EXCEPT !.coeff = RingMul(t.coeff, f)]
      [] f.k = "Var" -> AddExponent(t, Position(vs, f.id), ExpOfInt(1), E, build)
      [] f.k = "Pow" ->
            IF f.args[1].k # "Var" \/ f.args[2].k # "Num"
               \/ f.args[2].nt = "FiniteField"
               \/ (f.args[2].nt = "Large" /\ ~NumerFitsU32(f.args[2]))
            THEN TermPanic(t)
            ELSE AddExponent(t, Position(vs, f.args[1].id),
                             NumerAsU32(f.args[2]), E, build)
      [] OTHER -> TermPanic(t)

RECURSIVE ParseFactors(_, _, _, _, _)
ParseFactors(fs, vs, t, E, build) ==
    IF fs = <<>> \/ t.panic THEN t
    ELSE ParseFactors(Tail(fs), vs, ParseFactor(Head(fs), vs, t, E, build), E, build)

\* lines 247-263: the coefficient and the exponents of one summand
ParseTerm(term, vs, E, build) ==
    IF term.k = "Mul" THEN ParseFactors(term.args, vs, TermStart(vs), E, build)
    ELSE ParseFactor(term, vs, TermStart(vs), E, build)

(***************************************************************************)
(* MultivariatePolynomial (an external collaborator): new and              *)
(* append_monomial, which keeps the terms in monomial order, merges the    *)
(* monomials of equal exponents and keeps no zero coefficient.             *)
(***************************************************************************)
NewPoly(vs) == [made |-> TRUE, var_map |-> vs, terms |-> <<>>]

ExpCmp(a, b) == IF a.hi # b.hi THEN IntCmp(a.hi, b.hi) ELSE IntCmp(a.lo, b.lo)

\* the order of two exponent vectors of one length: the first difference decides
ExpsCmp(a, b) ==
    IF \A i \in 1..Len(a) : a[i] = b[i] THEN 0
    ELSE LET i == CHOOSE j \in 1..Len(a) :
                      a[j] # b[j] /\ \A k \in 1..(j - 1) : a[k] = b[k]
         IN  ExpCmp(a[i], b[i])

RECURSIVE InsertMonomial(_, _, _)
InsertMonomial(ts, c, es) ==
    IF ts = <<>> THEN <<[coeff |-> c, exps |-> es]>>
    ELSE LET cmp == ExpsCmp(es, Head(ts).exps)
         IN  IF cmp < 0 THEN <<[coeff |-> c, exps |-> es]>> \o ts
             ELSE IF cmp = 0
             THEN (IF NumIsZero(RingAdd(Head(ts).coeff, c)) THEN <<>>
                   ELSE <<[coeff |-> RingAdd(Head(ts).coeff, c), exps |-> es]>>)
                  \o Tail(ts)
             ELSE <<Head(ts)>> \o InsertMonomial(Tail(ts), c, es)

AppendMonomial(poly, c, es) ==
    IF NumIsZero(c) THEN poly
    ELSE [poly EXCEPT !.terms = InsertMonomial(poly.terms, c, es)]

(***************************************************************************)
(* Inputs of the polynomial conversion.                                    *)
(***************************************************************************)
MaxTerms == 2

VZ == Var(SymZ)
FunFX == Fun(SymF, <<VX>>)
U32MaxNum == BigNat(LimbBase - 1, LimbBase - 1)

\* exponents: in range, at the edges of the two widths, and not acceptable
ExpSamples ==
    { Num(0), Num(2), Num(100), Num(200), Num(U8Max - 1), Num(U8Max),
      Num(U8Max + 1), U32MaxNum, BigNat(LimbBase, 0), Num(-1), Rat(1, 2),
      LargeNum(0, 3, 1), LargeNum(LimbBase, 0, 1), LargeNum(0, 1, 2),
      FiniteFieldNum(1), VY, FunFX }

PolyCoefficients ==
    { Num(2), Num(-2), Rat(1, 2), LargeNum(1, 0, 1), FiniteFieldNum(1), TenTo15, MinI64,
      BigNat(1, 4464), [TenTo15 EXCEPT !.d = 3] }

PolyFactors ==
    PolyCoefficients \cup {VX, VY, VZ}
    \cup {Pow(VX, e) : e \in ExpSamples}
    \cup {Pow(VY, Num(2)), Pow(VZ, Num(-1)), Pow(Num(2), Num(2)), Pow(FunFX, Num(2))}
    \cup {FunFX, Add(<<VX, One>>)}

\* the factors of the products
MulFactors ==
    { Num(2), VX, VY, VZ, Pow(VX, Num(2)), Pow(VX, Num(100)), Pow(VX, Num(200)),
      Pow(VX, U32MaxNum), Pow(VX, Num(-1)), Pow(VX, VY), FunFX,
      Add(<<VX, One>>), FiniteFieldNum(1), Mul(<<VY, Num(2)>>), TenTo15, BigNat(1, 4464) }

PolyMuls == {Mul(<<a, b>>) : a \in MulFactors \ {Mul(<<VY, Num(2)>>)}, b \in MulFactors}

\* the summands of the sums
Summands ==
    { Num(2), VX, VY, VZ, Pow(VX, Num(2)), Pow(VX, Num(U8Max)), Mul(<<Num(2), VX>>),
      Mul(<<Num(-2), VX>>), Mul(<<VX, VY>>), Mul(<<VY, VX>>), FunFX, Pow(VX, Num(-1)),
      TenTo15, Mul(<<MaxI64, VX>>) }

RECURSIVE SeqsOf(_, _)
SeqsOf(S, n) ==
    IF n = 0 THEN {<<>>}
    ELSE {<<a>> \o s : a \in S, s \in SeqsOf(S, n - 1)}

\* x*(1+a) + x*5*y + x^2 + x^3, as written and as expanded
SymA == SymF + 1
VA == Var(SymA)
Example ==
    Add(<<Mul(<<VX, Add(<<One, VA>>)>>), Mul(<<VX, Num(5), VY>>),
          Pow(VX, Num(2)), Pow(VX, Num(3))>>)
ExampleExpanded ==
    Add(<<Mul(<<VX, VA>>), VX, Mul(<<VX, Num(5), VY>>),
          Pow(VX, Num(2)), Pow(VX, Num(3))>>)
Examples == {Example, ExampleExpanded}

PolySums == {Add(s) : s \in UNION {SeqsOf(Summands, n) : n \in 2..MaxTerms}}

PolyInputs == PolyFactors \cup PolyMuls \cup PolySums \cup Examples

VarMaps ==
    { [given |-> FALSE, ids |-> <<>>] }
    \cup { [given |-> TRUE, ids |-> s] :
             s \in { <<SymX>>, <<SymX, SymY>>, <<SymY, SymX>>, <<SymZ, SymY, SymX>> } }

DerivIdle ==
    /\ pc = "idle"
    /\ expr = Zero
    /\ x = SymX
    /\ orig = Zero
    /\ out = Zero
    /\ raw = Zero
    /\ ret = FALSE
    /\ steps = 0

(***************************************************************************)
(* to_polynomial as a state machine: the first pass, the creation of the   *)
(* polynomial, one step of the second pass per summand, the return.        *)
(***************************************************************************)
InitPoly ==
    /\ ppc = "ready"
    /\ pexpr \in PolyInputs
    /\ pwidth \in {"u8", "u32"}
    /\ pvarmap \in VarMaps
    /\ pbuild \in {"debug", "release"}
    /\ pvars = <<>>
    /\ pidx = 0
    /\ ppoly = NoPoly
    /\ pappends = 0
    /\ pres = NoResult
    /\ DerivIdle
    /\ FromIdle
    /\ TokIdle
    /\ RatIdle

\* lines 187-202 and 268-273: the first pass accepts, the polynomial is made
ValidateAccepts ==
    /\ ppc = "ready"
    /\ FirstPass(pexpr, pvarmap).status = "ok"
    /\ ppc' = "parsing"
    /\ pvars' = FirstPass(pexpr, pvarmap).vars
    /\ ppoly' = NewPoly(FirstPass(pexpr, pvarmap).vars)
    /\ pidx' = 1
    /\ UNCHANGED <<pexpr, pwidth, pvarmap, pbuild, pappends, pres>>
    /\ UNCHANGED exceptPoly

\* the mutant makes the polynomial before it returns the error of the first pass
ValidateRejectsMut ==
    /\ ppc = "ready"
    /\ FirstPass(pexpr, pvarmap).status = "err"
    /\ ppc' = "done"
    /\ ppoly' = NewPoly(<<>>)
    /\ pres' = [status |-> "err", err |-> FirstPass(pexpr, pvarmap).err]
    /\ UNCHANGED <<pexpr, pwidth, pvarmap, pbuild, pvars, pidx, pappends>>
    /\ UNCHANGED exceptPoly

\* lines 194, 199: the `?` returns the error of the first pass
ValidateRejects ==
    /\ ppc = "ready"
    /\ FirstPass(pexpr, pvarmap).status = "err"
    /\ ppc' = "done"
    /\ pres' = [status |-> "err", err |-> FirstPass(pexpr, pvarmap).err]
    /\ UNCHANGED <<pexpr, pwidth, pvarmap, pbuild, pvars, pidx, ppoly, pappends>>
    /\ UNCHANGED exceptPoly

\* line 167
ValidatePanics ==
    /\ ppc = "ready"
    /\ FirstPass(pexpr, pvarmap).status = "panic"
    /\ ppc' = "panic"
    /\ pres' = [status |-> "panic", err |-> ""]
    /\ UNCHANGED <<pexpr, pwidth, pvarmap, pbuild, pvars, pidx, ppoly, pappends>>
    /\ UNCHANGED exceptPoly

\* lines 247-266, 275-282: parse_term on the next summand
ParseNextTerm ==
    /\ ppc = "parsing"
    /\ pidx <= Len(TopTerms(pexpr))
    /\ LET t == ParseTerm(TopTerms(pexpr)[pidx], pvars, pwidth, pbuild)
       IN  /\ ~t.panic
           /\ ppoly' = AppendMonomial(ppoly, t.coeff, t.exps)
    /\ pappends' = pappends + 1
    /\ pidx' = pidx + 1
    /\ UNCHANGED <<ppc, pexpr, pwidth, pvarmap, pbuild, pvars, pres>>
    /\ UNCHANGED exceptPoly

\* lines 78, 217, 233, 236: parse_term aborts
ParsePanics ==
    /\ ppc = "parsing"
    /\ pidx <= Len(TopTerms(pexpr))
    /\ ParseTerm(TopTerms(pexpr)[pidx], pvars, pwidth, pbuild).panic
    /\ ppc' = "panic"
    /\ pres' = [status |-> "panic", err |-> ""]
    /\ UNCHANGED <<pexpr, pwidth, pvarmap, pbuild, pvars, pidx, ppoly, pappends>>
    /\ UNCHANGED exceptPoly

\* line 284
ReturnPoly ==
    /\ ppc = "parsing"
    /\ pidx > Len(TopTerms(pexpr))
    /\ ppc' = "done"
    /\ pres' = [status |-> "ok", err |-> ""]
    /\ UNCHANGED <<pexpr, pwidth, pvarmap, pbuild, pvars, pidx, ppoly, pappends>>
    /\ UNCHANGED exceptPoly

NextPoly ==
    \/ ValidateAccepts
    \/ ValidateRejects
    \/ ValidatePanics
    \/ ParseNextTerm
    \/ ParsePanics
    \/ ReturnPoly

SpecPoly == InitPoly /\ [][NextPoly]_vars

(***************************************************************************)
(* Vocabulary of the properties of the polynomial conversion.              *)
(***************************************************************************)
PolyFinished == ppc \in {"done", "panic"}

FactorsOfTerm(t) == IF t.k = "Mul" THEN t.args ELSE <<t>>

RECURSIVE ConcatFactors(_)
ConcatFactors(ts) ==
    IF ts = <<>> THEN <<>>
    ELSE FactorsOfTerm(Head(ts)) \o ConcatFactors(Tail(ts))

\* every factor of every summand, in the order of the expression
AllFactors(e) == ConcatFactors(TopTerms(e))

InMap(id, vm) == vm.given => Contains(vm.ids, id)

\* a nonnegative integer no greater than the largest value of the width
Representable(E, num) ==
    /\ num.k = "Num" /\ num.nt # "FiniteField" /\ num.d = 1
    /\ ~KeptAsDigits(num)
    /\ num.hi >= 0 /\ num.n >= 0
    /\ IF E = "u8" THEN num.hi = 0 /\ num.n <= U8Max
       ELSE num.hi + (num.n \div LimbBase) < LimbBase

PolynomialFactor(f, E, vm) ==
    \/ f.k = "Num" /\ f.nt # "FiniteField"
    \/ f.k = "Var" /\ InMap(f.id, vm)
    \/ /\ f.k = "Pow"
       /\ f.args[1].k = "Var" /\ InMap(f.args[1].id, vm)
       /\ Representable(E, f.args[2])

Acceptable(e, E, vm) ==
    \A i \in 1..Len(AllFactors(e)) : PolynomialFactor(AllFactors(e)[i], E, vm)

\* C8: to_polynomial returns a polynomial exactly when every factor of every
\* summand is a number outside the finite fields, a variable (of the supplied
\* map, when one is supplied) or a power of such a variable by a nonnegative
\* integer representable in the exponent width; otherwise it returns an error.
C8_AcceptsExactlyPolynomials ==
    PolyFinished =>
        pres.status = IF Acceptable(pexpr, pwidth, pvarmap) THEN "ok" ELSE "err"

\* the kind of an error value
KindOf(err) ==
    CASE err = ErrFunction -> "UnsupportedFunction"
      [] err = ErrBase -> "UnsupportedBase"
      [] err = ErrExponentNatural -> "BadExponent"
      [] err = ErrExponentLarge -> "BadExponent"
      [] err = ErrSubexpression -> "NestedSum"
      [] err = ErrFiniteField -> "FiniteFieldUnsupported"
      [] err = ErrUnknownVariable -> "UnknownVariable"
      [] OTHER -> "none"

AbsentVar(f, vm) ==
    \/ f.k = "Var" /\ ~InMap(f.id, vm)
    \/ f.k = "Pow" /\ f.args[1].k = "Var" /\ ~InMap(f.args[1].id, vm)

\* the causes of rejection that a factor presents
Causes(f, E, vm) ==
    (IF f.k = "Fun" THEN {"UnsupportedFunction"} ELSE {})
    \cup (IF f.k = "Pow" /\ f.args[1].k # "Var" THEN {"UnsupportedBase"} ELSE {})
    \cup (IF f.k = "Pow" /\ f.args[1].k = "Var" /\ ~Representable(E, f.args[2])
          THEN {"BadExponent"} ELSE {})
    \cup (IF f.k = "Add" THEN {"NestedSum"} ELSE {})
    \cup (IF \/ f.k = "Num" /\ f.nt = "FiniteField"
             \/ f.k = "Pow" /\ f.args[2].k = "Num" /\ f.args[2].nt = "FiniteField"
          THEN {"FiniteFieldUnsupported"} ELSE {})
    \cup (IF AbsentVar(f, vm) THEN {"UnknownVariable"} ELSE {})

AllCauses(e, E, vm) ==
    UNION {Causes(AllFactors(e)[i], E, vm) : i \in 1..Len(AllFactors(e))}

\* C9: an error returned by to_polynomial has the kind of a cause of rejection
\* that the expression presents: UnsupportedFunction for a function,
\* UnsupportedBase for a power of a non-variable, BadExponent for a power of a
\* variable by a non-number, a fraction, a negative or an oversize number,
\* NestedSum for a sum as a factor, FiniteFieldUnsupported for a finite-field
\* number, UnknownVariable for a variable outside the supplied map.
C9_DistinctErrorKinds ==
    (ppc = "done" /\ pres.status = "err") =>
        KindOf(pres.err) \in AllCauses(pexpr, pwidth, pvarmap)

SomeAbsentVar(e, vm) ==
    \E i \in 1..Len(AllFactors(e)) : AbsentVar(AllFactors(e)[i], vm)

\* C10 as stated: with a supplied map, an absent variable gives the
\* UnknownVariable error, and a polynomial returned has exactly the supplied
\* sequence as its var_map.
C10_SuppliedMapIsFixed ==
    (pvarmap.given /\ PolyFinished) =>
        /\ SomeAbsentVar(pexpr, pvarmap) =>
             (pres.status = "err" /\ pres.err = ErrUnknownVariable)
        /\ pres.status = "ok" => ppoly.var_map = pvarmap.ids

\* the first factor, in the order of the expression, that is no polynomial
\* factor at the widest width holds a variable outside the map
FirstRejectedIsAbsentVar(e, vm) ==
    \E i \in 1..Len(AllFactors(e)) :
        /\ AbsentVar(AllFactors(e)[i], vm)
        /\ \A j \in 1..(i - 1) : PolynomialFactor(AllFactors(e)[j], "u32", vm)

\* C10 amended: with a supplied map, the polynomial under construction and the
\* polynomial returned have exactly the supplied sequence as var_map; an
\* expression holding a variable outside the map yields no polynomial, and
\* yields the UnknownVariable error when no factor before that variable is
\* rejected for another reason.
C10_SuppliedMapIsFixedAmended ==
    pvarmap.given =>
        /\ ppoly.made => ppoly.var_map = pvarmap.ids
        /\ PolyFinished =>
             /\ SomeAbsentVar(pexpr, pvarmap) => pres.status # "ok"
             /\ FirstRejectedIsAbsentVar(pexpr, pvarmap) =>
                  (pres.status = "err" /\ pres.err = ErrUnknownVariable)
             /\ pres.status = "ok" => (ppoly.made /\ ppoly.var_map = pvarmap.ids)

\* a product is rejected for a variable outside the supplied map
C10_Witness ==
    /\ pvarmap.given /\ ppc = "done"
    /\ pexpr.k = "Mul"
    /\ FirstRejectedIsAbsentVar(pexpr, pvarmap)
    /\ pres.status = "err" /\ pres.err = ErrUnknownVariable

\* the variable that a factor presents: itself, or the base of a power
HasVar(f) == f.k = "Var" \/ (f.k = "Pow" /\ f.args[1].k = "Var")
VarOf(f) == IF f.k = "Var" THEN f.id ELSE f.args[1].id

\* the distinct variables of a sequence of factors, by first encounter
RECURSIVE Encounter(_, _)
Encounter(fs, seen) ==
    IF fs = <<>> THEN seen
    ELSE IF HasVar(Head(fs)) /\ ~Contains(seen, VarOf(Head(fs)))
         THEN Encounter(Tail(fs), Append(seen, VarOf(Head(fs))))
         ELSE Encounter(Tail(fs), seen)

FirstEncounter(e) == Encounter(AllFactors(e), <<>>)

\* C11: with no varMap, the variable ordering of the polynomial is the sequence
\* of the distinct variables by first encounter, summands left to right and
\* factors left to right within a summand (a power counts for its base), and
\* every exponent vector has one entry per distinct variable.
C11_FirstEncounterOrder ==
    (~pvarmap.given /\ ppoly.made) =>
        /\ ppoly.var_map = FirstEncounter(pexpr)
        /\ \A i \in 1..Len(ppoly.terms) :
             Len(ppoly.terms[i].exps) = Len(FirstEncounter(pexpr))

\* a sum over y*x and a power of x is converted: y comes first
C11_Witness ==
    /\ ~pvarmap.given /\ ppc = "done" /\ pres.status = "ok"
    /\ pexpr.k = "Add"
    /\ \E i \in 1..Len(pexpr.args) : pexpr.args[i].k = "Pow"
    /\ ppoly.var_map = <<SymY, SymX>>
    /\ Len(ppoly.terms) = 2

TermSet(poly) == {poly.terms[i] : i \in 1..Len(poly.terms)}

Monomial(c, ks) == [coeff |-> c, exps |-> [i \in 1..Len(ks) |-> ExpOfInt(ks[i])]]

\* {x*a, x, 5*x*y, x^2, x^3} in the variables [x, a, y]
ExampleTerms ==
    { Monomial(One, <<1, 1, 0>>), Monomial(One, <<1, 0, 0>>),
      Monomial(Num(5), <<1, 0, 1>>), Monomial(One, <<2, 0, 0>>),
      Monomial(One, <<3, 0, 0>>) }

IsExamplePoly ==
    /\ pres.status = "ok"
    /\ ppoly.var_map = <<SymX, SymA, SymY>>
    /\ TermSet(ppoly) = ExampleTerms
    /\ Len(ppoly.terms) = 5

\* C12 as stated: to_polynomial on x*(1+a) + x*5*y + x^2 + x^3 with no varMap
\* succeeds with the variables [x, a, y] and the monomials
\* {x*a, x, 5*x*y, x^2, x^3}.
C12_Example ==
    (pexpr = Example /\ ~pvarmap.given /\ PolyFinished) => IsExamplePoly

\* C12 amended: on x*(1+a) + x*5*y + x^2 + x^3 with no varMap the call returns
\* the error of a sum below a product and makes no polynomial; on the expanded
\* form x*a + x + x*5*y + x^2 + x^3 it succeeds with the variables [x, a, y]
\* and the monomials {x*a, x, 5*x*y, x^2, x^3}.
C12_ExampleAmended ==
    (~pvarmap.given /\ PolyFinished) =>
        /\ pexpr = Example =>
             (pres.status = "err" /\ pres.err = ErrSubexpression /\ ~ppoly.made)
        /\ pexpr = ExampleExpanded => IsExamplePoly

\* the expanded example has been converted
C12_Witness ==
    /\ pexpr = ExampleExpanded /\ ~pvarmap.given /\ ppc = "done"
    /\ IsExamplePoly /\ pappends = 5

\* the exponent of the variable id in a sequence of polynomial factors: the
\* sum, in limbs, of the exponents of the factors over id
RECURSIVE DegreeIn(_, _)
DegreeIn(fs, id) ==
    IF fs = <<>> THEN ExpZero
    ELSE LET f == Head(fs)
             k == IF f.k = "Var" /\ f.id = id THEN ExpOfInt(1)
                  ELSE IF f.k = "Pow" /\ f.args[1].id = id
                       THEN ExpVal(f.args[2].hi + (f.args[2].n \div LimbBase),
                                   f.args[2].n % LimbBase)
                       ELSE ExpZero
         IN  LimbSum(k, DegreeIn(Tail(fs), id))

WithinWidth(E, v) == IF E = "u8" THEN v.hi = 0 /\ v.lo <= U8Max ELSE v.hi < LimbBase

\* some summand has, in some variable, an exponent beyond the width
ExceedsWidth(e, E) ==
    \E i \in 1..Len(TopTerms(e)) : \E id \in {SymX, SymY, SymZ, SymA} :
        ~WithinWidth(E, DegreeIn(FactorsOfTerm(TopTerms(e)[i]), id))

\* C13: on an expression whose factors are numbers, variables and powers of
\* variables by nonnegative integers, to_polynomial succeeds when the exponent
\* of every variable in every summand is within the exponent width, and
\* returns the BadExponent error when one is beyond it, whether it comes from
\* one power or from the sum over several factors; it neither panics nor
\* returns a polynomial with a wrapped exponent.
C13_ExponentWidthSafety ==
    (PolyFinished /\ Acceptable(pexpr, "u32", pvarmap)) =>
        IF ExceedsWidth(pexpr, pwidth)
        THEN pres.status = "err" /\ KindOf(pres.err) = "BadExponent"
        ELSE pres.status = "ok"

\* C14: a call of to_polynomial never aborts by a panic: whatever the
\* expression, the variable map and the exponent width, it ends by returning
\* a polynomial or an error value.
C14_NeverPanics == ppc # "panic" /\ pres.status # "panic"

(***************************************************************************)
(* AtomView::to_polynomial as a function of its arguments: the two passes  *)
(* in one step.  The result is [status, err, poly].                        *)
(***************************************************************************)
RECURSIVE ParseTerms(_, _, _, _, _)
ParseTerms(ts, vs, E, build, poly) ==
    IF ts = <<>> THEN [panic |-> FALSE, poly |-> poly]
    ELSE LET t == ParseTerm(Head(ts), vs, E, build)
         IN  IF t.panic THEN [panic |-> TRUE, poly |-> poly]
             ELSE ParseTerms(Tail(ts), vs, E, build,
                             AppendMonomial(poly, t.coeff, t.exps))

ToPolynomial(e, E, varMap, build) ==
    LET fp == FirstPass(e, varMap)
    IN  IF fp.status # "ok"
        THEN [status |-> fp.status, err |-> fp.err, poly |-> NoPoly]
        ELSE LET r == ParseTerms(TopTerms(e), fp.vars, E, build, NewPoly(fp.vars))
             IN  IF r.panic THEN [status |-> "panic", err |-> "", poly |-> NoPoly]
                 ELSE [status |-> "ok", err |-> "", poly |-> r.poly]

(***************************************************************************)
(* OwnedAtom::from_polynomial (poly.rs:385-433).                           *)
(***************************************************************************)
\* Number::Natural(pow as i64, 1)
ExpNum(pow) == BigNat(pow.hi, pow.lo)

\* lines 424-427
CoefficientNumber(c) ==
    IF c.nt = "Natural" THEN Node("Num", 0, "Natural", c.hi, c.n, c.d, c.args)
    ELSE Node("Num", 0, "Large", c.hi, c.n, c.d, c.args)

\* mutant: a first power is written as a power
VarFactorMut(mul, id, pow) ==
    IF pow.hi > 0 \/ pow.lo > 0
    THEN Extend(mul, Pow(Var(id), ExpNum(pow)))
    ELSE mul

\* lines 402-419: the factor of one variable
VarFactor(mul, id, pow) ==
    IF pow.hi > 0 \/ pow.lo > 0
    THEN IF pow.hi > 0 \/ pow.lo > 1
         THEN Extend(mul, Pow(Var(id), ExpNum(pow)))
         ELSE Extend(mul, Var(id))
    ELSE mul

\* lines 401-420: var_map zipped with the exponents, from position i on
RECURSIVE VarFactors(_, _, _, _)
VarFactors(mul, var_map, exps, i) ==
    IF i > Len(var_map) \/ i > Len(exps) THEN mul
    ELSE VarFactors(VarFactor(mul, var_map[i], exps[i]), var_map, exps, i + 1)

\* lines 398-431: the product of one monomial
MonomialMul(var_map, m) ==
    Extend(VarFactors(Mul(<<>>), var_map, m.exps, 1), CoefficientNumber(m.coeff))

\* lines 397-432
RECURSIVE MonomialMuls(_, _, _)
MonomialMuls(add, var_map, ts) ==
    IF ts = <<>> THEN add
    ELSE MonomialMuls(Extend(add, MonomialMul(var_map, Head(ts))), var_map, Tail(ts))

FromPolynomial(poly) == MonomialMuls(Add(<<>>), poly.var_map, poly.terms)

(***************************************************************************)
(* The dirty flag of the node from_polynomial writes.  from_polynomial     *)
(* makes no call of set_dirty (lines 385-433 have none), where the         *)
(* derivative calls set_dirty(true) itself after each sequence of          *)
(* transform_to_add and extend (derivative.rs:170, 266, 292, 303, 328).    *)
(* The flag after the call is therefore the flag that the construction     *)
(* helpers leave.  The helpers are not part of the source, and nothing in  *)
(* it fixes what they do with the flag: a helper sets it, keeps the flag   *)
(* the node had, or clears it.                                             *)
(***************************************************************************)
FlagEffects == {"set", "kept", "cleared"}

\* self.transform_to_add() (line 395): the flag of the empty sum, for a node
\* that had the flag `before`
TransformToAddDirty(before, effect) ==
    CASE effect = "set" -> TRUE
      [] effect = "kept" -> before
      [] OTHER -> FALSE

\* add.extend(..) (line 431): the flag of the sum with one more child
ExtendDirty(flag, effect) ==
    CASE effect = "set" -> TRUE
      [] effect = "kept" -> flag
      [] OTHER -> FALSE

\* lines 397-432: one extend per monomial, and no set_dirty
RECURSIVE DirtyAfter(_, _, _)
DirtyAfter(flag, ts, effect) ==
    IF ts = <<>> THEN flag
    ELSE DirtyAfter(ExtendDirty(flag, effect), Tail(ts), effect)

\* lines 385-433: transform_to_add, then the loop; h = [transform, extend] is
\* what the two helpers do with the flag
FromPolynomialDirty(poly, before, h) ==
    DirtyAfter(TransformToAddDirty(before, h.transform), poly.terms, h.extend)

(***************************************************************************)
(* Inputs of from_polynomial: polynomials over the rationals with u32      *)
(* exponents, built by append_monomial so that they are in monomial order  *)
(* with no zero coefficient and no repeated exponent vector.               *)
(***************************************************************************)
MaxMonomials == 2

U32MaxExp == ExpVal(LimbBase - 1, LimbBase - 1)
\* the exponent vectors of the monomials, by number of variables
ExpVectors(n) ==
    IF n = 0 THEN {<<>>}
    ELSE IF n = 1 THEN {<<ExpZero>>, <<ExpOfInt(1)>>, <<ExpOfInt(2)>>, <<U32MaxExp>>}
    ELSE { <<ExpZero, ExpZero>>, <<ExpOfInt(1), ExpZero>>, <<ExpZero, ExpOfInt(1)>>,
           <<ExpOfInt(1), ExpOfInt(2)>>, <<ExpOfInt(2), ExpZero>>,
           <<ExpZero, U32MaxExp>> }
FromCoefficients == {One, Num(2), MinusOne}
FromVarMaps == {<<>>, <<SymX>>, <<SymX, SymY>>, <<SymY, SymX>>}

MonomialsOver(vm) ==
    {[coeff |-> c, exps |-> es] : c \in FromCoefficients,
                                  es \in ExpVectors(Len(vm))}

RECURSIVE AppendAll(_, _)
AppendAll(poly, ms) ==
    IF ms = <<>> THEN poly
    ELSE AppendAll(AppendMonomial(poly, Head(ms).coeff, Head(ms).exps), Tail(ms))

InputPoly(vm, ms) ==
    [has_map |-> TRUE, var_map |-> vm, terms |-> AppendAll(NewPoly(vm), ms).terms]

\* a coefficient beyond the ordinary size, a fraction
SpecialPolys ==
    { [has_map |-> TRUE, var_map |-> <<SymX>>,
       terms |-> <<[coeff |-> c, exps |-> <<ExpOfInt(2)>>]>>] :
         c \in {LargeNum(1, 0, 1), Rat(1, 2), TenTo15, MinI64, [TenTo15 EXCEPT !.d = 7],
                [TenTo15 EXCEPT !.nt = "Large"]} }

InputPolys ==
    {InputPoly(vm, ms) : <<vm, ms>> \in
        UNION {{vm} \X UNION {SeqsOf(MonomialsOver(vm), n) : n \in 0..MaxMonomials} :
                 vm \in FromVarMaps}}
    \cup SpecialPolys
    \cup {NoInputPoly}

(***************************************************************************)
(* from_polynomial as a state machine: a caller writes a polynomial into   *)
(* an atom, and converts the atom back with to_polynomial, with the        *)
(* variable map of the polynomial or with none.                            *)
(***************************************************************************)
InitFrom ==
    /\ fpc = "ready"
    /\ fpoly \in InputPolys
    /\ fout = Zero
    /\ fback = NoBack
    /\ fdirty \in BOOLEAN    \* the flag out has before the call
    /\ PolyIdle
    /\ DerivIdle
    /\ TokIdle
    /\ RatIdle

\* lines 395-433
FromPolynomialWrites ==
    /\ fpc = "ready"
    /\ fpoly.has_map
    /\ fpc' = "written"
    /\ fout' = FromPolynomial(fpoly)
    /\ \E h \in [transform : FlagEffects, extend : FlagEffects] :
         fdirty' = FromPolynomialDirty(fpoly, fdirty, h)
    /\ UNCHANGED <<fpoly, fback>>
    /\ UNCHANGED exceptFrom

\* lines 390-393: expect("No variable map present in polynomial")
FromPolynomialPanics ==
    /\ fpc = "ready"
    /\ ~fpoly.has_map
    /\ fpc' = "panic"
    /\ UNCHANGED <<fpoly, fout, fback, fdirty>>
    /\ UNCHANGED exceptFrom

\* to_polynomial::<_, u32> on the atom written
ConvertBack ==
    /\ fpc = "written"
    /\ \E given \in BOOLEAN, build \in {"debug", "release"} :
         LET r == ToPolynomial(fout, "u32", [given |-> given,
                                 ids |-> IF given THEN fpoly.var_map ELSE <<>>], build)
         IN  fback' = [given |-> given, status |-> r.status, err |-> r.err,
                       poly |-> r.poly]
    /\ fpc' = "back"
    /\ UNCHANGED <<fpoly, fout, fdirty>>
    /\ UNCHANGED exceptFrom

NextFrom == FromPolynomialWrites \/ FromPolynomialPanics \/ ConvertBack

SpecFrom == InitFrom /\ [][NextFrom]_vars

(***************************************************************************)
(* Properties of from_polynomial.                                          *)
(***************************************************************************)
Written == fpc \in {"written", "back"}

\* the positions of the nonzero exponents, ascending, from position i on
RECURSIVE PositiveFrom(_, _)
PositiveFrom(exps, i) ==
    IF i > Len(exps) THEN <<>>
    ELSE (IF exps[i] # ExpZero THEN <<i>> ELSE <<>>) \o PositiveFrom(exps, i + 1)

\* what the claim asks of the product written for the monomial m
IsMonomialProduct(c, var_map, m) ==
    LET pos == PositiveFrom(m.exps, 1)
    IN  /\ c.k = "Mul"
        /\ Len(c.args) = Len(pos) + 1
        /\ c.args[Len(pos) + 1].k = "Num"
        /\ c.args[Len(pos) + 1] = m.coeff
        /\ \A j \in 1..Len(pos) :
             c.args[j] = IF m.exps[pos[j]] = ExpOfInt(1)
                         THEN Var(var_map[pos[j]])
                         ELSE Pow(Var(var_map[pos[j]]),
                                  BigNat(m.exps[pos[j]].hi, m.exps[pos[j]].lo))

\* C15: from_polynomial writes a sum with one product per monomial, in the
\* order of the monomials; each product holds, in var_map order, the variable
\* itself for an exponent 1, the power of the variable by the exponent for an
\* exponent above 1, nothing for an exponent 0, and the coefficient last.
C15_FromPolynomialShape ==
    Written =>
        /\ fout.k = "Add"
        /\ Len(fout.args) = Len(fpoly.terms)
        /\ \A i \in 1..Len(fpoly.terms) :
             IsMonomialProduct(fout.args[i], fpoly.var_map, fpoly.terms[i])

\* two monomials were written: one with exponents 1 and above 1, one with an
\* exponent 0
C15_Witness ==
    /\ fpc = "written"
    /\ Len(fpoly.terms) = 2
    /\ Len(fpoly.var_map) = 2
    /\ \E i \in 1..2 : fpoly.terms[i].exps = <<ExpOfInt(1), ExpOfInt(2)>>
    /\ \E i \in 1..2 : fpoly.terms[i].exps[1] = ExpZero
    /\ Len(fout.args) = 2

\* C16 as stated: the atom written by from_polynomial(p), converted back by
\* to_polynomial with p's variable map or with none, is accepted and gives p:
\* the same variable map and the same set of terms.
C16_RoundTrip ==
    fpc = "back" =>
        /\ fback.status = "ok"
        /\ fback.poly.var_map = fpoly.var_map
        /\ TermSet(fback.poly) = TermSet(fpoly)

\* the monomial m over from_map, written over to_map
Reexpress(m, from_map, to_map) ==
    [coeff |-> m.coeff,
     exps |-> [j \in 1..Len(to_map) |-> m.exps[Position(from_map, to_map[j])]]]

\* the variables of from_map outside to_map have exponent 0 in every term
OnlyOver(poly, to_map) ==
    \A i \in 1..Len(poly.terms) : \A j \in 1..Len(poly.var_map) :
        ~Contains(to_map, poly.var_map[j]) => poly.terms[i].exps[j] = ExpZero

\* C16 amended: the atom written by from_polynomial(p) is accepted by
\* to_polynomial; with p's variable map supplied the result is p (the same
\* variable map, the same terms in the same order); with no varMap the
\* result is p written over the variables that occur in its terms, in the
\* order of their first occurrence, and is p exactly when that sequence is
\* p's variable map.
C16_RoundTripAmended ==
    fpc = "back" =>
        /\ fback.status = "ok"
        /\ fback.given =>
             /\ fback.poly.var_map = fpoly.var_map
             /\ fback.poly.terms = fpoly.terms
        /\ ~fback.given =>
             /\ fback.poly.var_map = FirstEncounter(fout)
             /\ \A j \in 1..Len(fback.poly.var_map) :
                  Contains(fpoly.var_map, fback.poly.var_map[j])
             /\ OnlyOver(fpoly, fback.poly.var_map)
             /\ Len(fback.poly.terms) = Len(fpoly.terms)
             /\ TermSet(fback.poly) =
                  {Reexpress(fpoly.terms[i], fpoly.var_map, fback.poly.var_map) :
                     i \in 1..Len(fpoly.terms)}
             /\ fback.poly.var_map = fpoly.var_map =>
                  TermSet(fback.poly) = TermSet(fpoly)

\* a polynomial of two monomials in two variables, one exponent at the
\* largest u32, came back through its own variable map
C16_Witness ==
    /\ fpc = "back" /\ fback.given /\ fback.status = "ok"
    /\ Len(fpoly.var_map) = 2
    /\ Len(fback.poly.terms) = 2
    /\ \E i \in 1..2 : fback.poly.terms[i].exps[2] = U32MaxExp

(***************************************************************************)
(* Tokens (the parser's tree, an external collaborator): a token is        *)
(* [t, text, op, args]; text is the literal of a Number or the name of an  *)
(* ID, one character per element.                                          *)
(***************************************************************************)
Tok(t, text, op, args) == [t |-> t, text |-> text, op |-> op, args |-> args]
TNumber(text) == Tok("Number", text, "-", <<>>)
TID(text) == Tok("ID", text, "-", <<>>)
TOp(op, args) == Tok("Op", <<>>, op, args)
TFn(text, args) == Tok("Fn", text, "-", args)

\* State::get_or_insert_var: the identifier of a name
GetOrInsertVar(text) ==
    CASE text = <<"x">> -> SymX
      [] text = <<"y">> -> SymY
      [] text = <<"z">> -> SymZ
      [] text = <<"a">> -> SymA
      [] OTHER -> SymA + 1

(***************************************************************************)
(* Number literals: str::parse::<i64>, ArbitraryPrecisionInteger::parse    *)
(* and to_u32.                                                             *)
(***************************************************************************)
IsNegative(text) == text # <<>> /\ Head(text) = "-"
Body(text) == IF text # <<>> /\ Head(text) \in {"-", "+"} THEN Tail(text) ELSE text
AllDigits(ds) == ds # <<>> /\ \A i \in 1..Len(ds) : DigitOf(ds[i]) >= 0

\* str::parse::<i64> succeeds: an optional sign, then digits only, within i64
FitsI64(text) ==
    /\ AllDigits(Body(text))
    /\ BigFitsI64(Big(IsNegative(text), Chunks(Strip(Body(text)))))

\* the value of a stripped digit sequence, in limbs
MagnitudeOf(ds) ==
    ExpVal(LimbsFrom(Chunks(ds), Len(Chunks(ds)), 0, 0)[1],
           LimbsFrom(Chunks(ds), Len(Chunks(ds)), 0, 0)[2])

Magnitude(text) == MagnitudeOf(Strip(Body(text)))

\* BorrowedNumber::Natural(x, 1) for the i64 read
NaturalOf(text) ==
    NumberNode("Natural", Big(IsNegative(text), Chunks(Strip(Body(text)))), 1)

\* ArbitraryPrecisionInteger::parse passes over ASCII whitespace anywhere and
\* over an underscore once a digit has been read; a sign may come first
IsSpace(ch) == ch \in {" ", "\t", "\n", "\r", "\f"}
NotSpace(ch) == ~IsSpace(ch)
NotUnderscore(ch) == ch # "_"
Unspaced(text) == SelectSeq(text, NotSpace)

\* ArbitraryPrecisionInteger::parse succeeds
BigParses(text) ==
    LET body == Body(Unspaced(text))
    IN  /\ body # <<>>
        /\ DigitOf(Head(body)) >= 0
        /\ \A i \in 1..Len(body) : DigitOf(body[i]) >= 0 \/ body[i] = "_"

\* the sign and the digits it reads
BigNegative(text) == IsNegative(Unspaced(text))
BigDigits(text) == Strip(SelectSeq(Body(Unspaced(text)), NotUnderscore))

\* BorrowedNumber::Large of the integer read
LargeOf(text) == NumberNode("Large", Big(BigNegative(text), Chunks(BigDigits(text))), 1)

\* 1 <= x <= u32::MAX for an i64 x
ExponentInRange(text) ==
    /\ ~IsNegative(text)
    /\ Len(Strip(Body(text))) <= 10
    /\ Magnitude(text) # ExpZero
    /\ Magnitude(text).hi < LimbBase

\* ArbitraryPrecisionInteger::to_u32 is Some
BigFitsU32(text) ==
    /\ ~BigNegative(text) \/ BigDigits(text) = <<>>
    /\ Len(BigDigits(text)) <= 10
    /\ MagnitudeOf(BigDigits(text)).hi < LimbBase

\* Ring::neg on a coefficient
RingNeg(c) == Lowest(c, c, BigNeg(Numerator(c)), c.d)

\* Ring::mul_assign on two coefficients: the exact product
RingMulAssign(c, num) == ExactMul(c, num)

(***************************************************************************)
(* Token::to_polynomial (lines 437-603): parse_factor and parse_term.  The *)
(* state of a term is [coeff, exps, panic, err]; err is "" until a `?`     *)
(* returns an error.                                                       *)
(***************************************************************************)
\* format!("Could not parse number: {}", e), e the error of the parse: no digit
\* was read, or a character is no digit
ErrNoDigits == "Could not parse number: string has no digits"
ErrInvalidDigit == "Could not parse number: invalid digit found in string"
ErrParseNumber(text) ==
    IF Body(Unspaced(text)) = <<>> THEN ErrNoDigits ELSE ErrInvalidDigit
ErrNegArgs == "Wrong args for neg"
ErrPowArgs == "Wrong args for pow"
ErrTokBase == "Unsupported base"
ErrTokExponent == "Unsupported exponent"
ErrInvalidExponent == "Invalid exponent"
ErrToU32 == "Cannot convert to u32"
ErrTokExpression == "Unsupported expression"

TokTermStart(vs) ==
    [coeff |-> One, exps |-> [i \in 1..Len(vs) |-> ExpZero], panic |-> FALSE, err |-> ""]

TermErr(t, msg) == [t EXCEPT !.err = msg]
TermStopped(t) == t.panic \/ t.err # ""

\* lines 452-465
TokNumberFactor(text, t) ==
    IF FitsI64(text) THEN [t EXCEPT !.coeff = RingMulAssign(t.coeff, NaturalOf(text))]
    ELSE IF BigParses(text) THEN [t EXCEPT !.coeff = RingMulAssign(t.coeff, LargeOf(text))]
    ELSE TermErr(t, ErrParseNumber(text))

\* lines 492-508
TokExponent(text, index, t, E, build) ==
    IF FitsI64(text)
    THEN IF ~ExponentInRange(text) THEN TermErr(t, ErrInvalidExponent)
         ELSE AddExponent(t, index, Magnitude(text), E, build)
    ELSE IF BigParses(text)
    THEN IF BigFitsU32(text)
         THEN AddExponent(t, index, MagnitudeOf(BigDigits(text)), E, build)
         ELSE TermErr(t, ErrToU32)
    ELSE TermErr(t, ErrParseNumber(text))

\* lines 478-511
TokPowFactor(f, vs, t, E, build) ==
    IF Len(f.args) # 2 THEN TermErr(t, ErrPowArgs)
    ELSE IF f.args[1].t # "ID" THEN TermErr(t, ErrTokBase)
    ELSE IF Position(vs, GetOrInsertVar(f.args[1].text)) = 0 THEN TermPanic(t)
    ELSE IF f.args[2].t # "Number" THEN TermErr(t, ErrTokExponent)
    ELSE TokExponent(f.args[2].text, Position(vs, GetOrInsertVar(f.args[1].text)),
                     t, E, build)

\* lines 443-516
RECURSIVE TokParseFactor(_, _, _, _, _)
TokParseFactor(f, vs, t, E, build) ==
    CASE f.t = "Number" -> TokNumberFactor(f.text, t)
      [] f.t = "ID" ->
            AddExponent(t, Position(vs, GetOrInsertVar(f.text)), ExpOfInt(1), E, build)
      [] f.t = "Op" /\ f.op = "Neg" ->
            IF Len(f.args) # 1 THEN TermErr(t, ErrNegArgs)
            ELSE TokParseFactor(f.args[1], vs, [t EXCEPT !.coeff = RingNeg(t.coeff)],
                                E, build)
      [] f.t = "Op" /\ f.op = "Pow" -> TokPowFactor(f, vs, t, E, build)
      [] OTHER -> TermErr(t, ErrTokExpression)

\* lines 530-539, 550-559: the factors of a product, stopping at the first `?`
RECURSIVE TokParseFactors(_, _, _, _, _)
TokParseFactors(fs, vs, t, E, build) ==
    IF fs = <<>> \/ TermStopped(t) THEN t
    ELSE TokParseFactors(Tail(fs), vs, TokParseFactor(Head(fs), vs, t, E, build),
                         E, build)

\* lines 518-572: the coefficient and the exponents of one summand
TokParseTerm(term, vs, E, build) ==
    IF term.t = "Op" /\ term.op = "Mul"
    THEN TokParseFactors(term.args, vs, TokTermStart(vs), E, build)
    ELSE IF term.t = "Op" /\ term.op = "Neg"
    THEN IF Len(term.args) # 1 THEN TermErr(TokTermStart(vs), ErrNegArgs)
         ELSE LET t == [TokTermStart(vs) EXCEPT !.coeff = RingNeg(One)]
              IN  IF term.args[1].t = "Op" /\ term.args[1].op = "Mul"
                  THEN TokParseFactors(term.args[1].args, vs, t, E, build)
                  ELSE TokParseFactor(term.args[1], vs, t, E, build)
    ELSE TokParseFactor(term, vs, TokTermStart(vs), E, build)

\* lines 578-602: the summands the call walks
TokTopTerms(tok) == IF tok.t = "Op" /\ tok.op = "Add" THEN tok.args ELSE <<tok>>

(***************************************************************************)
(* Inputs of the token conversion.                                         *)
(***************************************************************************)
TX == TID(<<"x">>)
TY == TID(<<"y">>)
TNeg(a) == TOp("Neg", <<a>>)
TPow(b, e) == TOp("Pow", <<b, e>>)

\* a literal beyond i64
BeyondI64 ==
    <<"1", "0", "0", "0", "0", "0", "0", "0", "0", "0", "0", "0", "0", "0", "0",
      "0", "0", "0", "0", "0">>

TokNumbers ==
    { TNumber(<<"2">>), TNumber(<<"-", "3">>), TNumber(<<"0", "7">>),
      TNumber(<<"1", "x">>), TNumber(BeyondI64), TNumber(TenTo15Digits), TNumber(<<>>),
      TNumber(<<"-">>), TNumber(<<" ", "5">>), TNumber(<<"1", "_", "0">>),
      TNumber(<<"_", "1">>) }

TokExponents ==
    { <<"2">>, <<"0">>, <<"-", "1">>, <<"2", "5", "5">>, <<"3", "x">>, BeyondI64, <<>>,
      <<" ", "5">>, <<"-", " ", "5">>,
      <<"4", "2", "9", "4", "9", "6", "7", "2", "9", "5">>,
      <<"4", "2", "9", "4", "9", "6", "7", "2", "9", "6">> }

TokPows ==
    { TPow(TX, TNumber(e)) : e \in TokExponents }
    \cup { TPow(TNumber(<<"2">>), TNumber(<<"2">>)), TPow(TX, TY), TOp("Pow", <<TX>>),
           TPow(TY, TNumber(<<"2">>)), TPow(TY, TX) }

TokOthers ==
    { TX, TY, TNeg(TX), TNeg(TNeg(TX)), TNeg(TNumber(<<"2">>)), TOp("Neg", <<>>),
      TFn(<<"f">>, <<TX>>), TOp("Inv", <<TX>>), TOp("Mul", <<TX, TY>>),
      TOp("Add", <<TX, TY>>) }

TokFactors == TokNumbers \cup TokPows \cup TokOthers

TokMulFactors ==
    { TNumber(<<"2">>), TX, TY, TNeg(TX), TPow(TX, TNumber(<<"2">>)),
      TFn(<<"f">>, <<TX>>) }

TokMuls ==
    { TOp("Mul", <<a, b>>) : a, b \in TokMulFactors }
    \cup { TOp("Mul", <<TNumber(<<"2">>), TNumber(BeyondI64)>>),
           TOp("Mul", <<TNumber(BeyondI64), TNumber(<<"-", "3">>), TX>>) }

TokSummands ==
    { TNumber(<<"2">>), TX, TY, TPow(TX, TNumber(<<"2">>)), TPow(TX, TNumber(<<"0">>)),
      TNeg(TX), TOp("Mul", <<TNumber(<<"2">>), TX>>),
      TNeg(TOp("Mul", <<TNumber(<<"2">>), TY>>)), TFn(<<"f">>, <<TX>>),
      TNumber(TenTo15Digits), TNumber(<<"-">> \o TenTo15Digits),
      TOp("Mul", <<TNumber(BeyondI64), TX>>) }

TokSums == { TOp("Add", s) : s \in UNION { SeqsOf(TokSummands, n) : n \in 2..MaxTerms } }

TokInputs ==
    TokFactors \cup { TNeg(f) : f \in TokMuls } \cup TokMuls \cup TokSums

TokVarMaps == { <<SymX>>, <<SymX, SymY>>, <<SymY, SymX>> }

(***************************************************************************)
(* Token::to_polynomial as a state machine: the creation of the            *)
(* polynomial, one parse_term per summand, the return.                     *)
(***************************************************************************)
InitTok ==
    /\ tpc = "ready"
    /\ ttok \in TokInputs
    /\ twidth \in {"u8", "u32"}
    /\ tvarmap \in TokVarMaps
    /\ tbuild \in {"debug", "release"}
    /\ tidx = 0
    /\ tpoly = NoPoly
    /\ tappends = 0
    /\ tres = NoResult
    /\ DerivIdle
    /\ PolyIdle
    /\ FromIdle
    /\ RatIdle

\* lines 580-585, 593-598: the polynomial is made before any term is read
TokNewPoly ==
    /\ tpc = "ready"
    /\ tpc' = "parsing"
    /\ tpoly' = NewPoly(tvarmap)
    /\ tidx' = 1
    /\ UNCHANGED <<ttok, twidth, tvarmap, tbuild, tappends, tres>>
    /\ UNCHANGED exceptTok

\* lines 518-576, 587-589, 599: parse_term on the next summand
TokParseNextTerm ==
    /\ tpc = "parsing"
    /\ tidx <= Len(TokTopTerms(ttok))
    /\ LET t == TokParseTerm(TokTopTerms(ttok)[tidx], tvarmap, twidth, tbuild)
       IN  /\ ~TermStopped(t)
           /\ tpoly' = AppendMonomial(tpoly, t.coeff, t.exps)
    /\ tappends' = tappends + 1
    /\ tidx' = tidx + 1
    /\ UNCHANGED <<tpc, ttok, twidth, tvarmap, tbuild, tres>>
    /\ UNCHANGED exceptTok

\* lines 588, 599: the `?` returns the error of parse_term
TokParseFails ==
    /\ tpc = "parsing"
    /\ tidx <= Len(TokTopTerms(ttok))
    /\ LET t == TokParseTerm(TokTopTerms(ttok)[tidx], tvarmap, twidth, tbuild)
       IN  /\ ~t.panic
           /\ t.err # ""
           /\ tres' = [status |-> "err", err |-> t.err]
    /\ tpc' = "done"
    /\ UNCHANGED <<ttok, twidth, tvarmap, tbuild, tidx, tpoly, tappends>>
    /\ UNCHANGED exceptTok

\* lines 78, 468, 486, 497, 503: parse_term aborts
TokParsePanics ==
    /\ tpc = "parsing"
    /\ tidx <= Len(TokTopTerms(ttok))
    /\ TokParseTerm(TokTopTerms(ttok)[tidx], tvarmap, twidth, tbuild).panic
    /\ tpc' = "panic"
    /\ tres' = [status |-> "panic", err |-> ""]
    /\ UNCHANGED <<ttok, twidth, tvarmap, tbuild, tidx, tpoly, tappends>>
    /\ UNCHANGED exceptTok

\* lines 590, 600
TokReturn ==
    /\ tpc = "parsing"
    /\ tidx > Len(TokTopTerms(ttok))
    /\ tpc' = "done"
    /\ tres' = [status |-> "ok", err |-> ""]
    /\ UNCHANGED <<ttok, twidth, tvarmap, tbuild, tidx, tpoly, tappends>>
    /\ UNCHANGED exceptTok

NextTok ==
    \/ TokNewPoly
    \/ TokParseNextTerm
    \/ TokParseFails
    \/ TokParsePanics
    \/ TokReturn

SpecTok == InitTok /\ [][NextTok]_vars

(***************************************************************************)
(* Vocabulary of the properties of the token conversion.                   *)
(***************************************************************************)
TokFinished == tpc \in {"done", "panic"}

\* a literal that is an integer
IntegerLiteral(text) == FitsI64(text) \/ BigParses(text)

\* a literal that is a strictly positive integer
PositiveLiteral(text) ==
    IF FitsI64(text) THEN ~IsNegative(text) /\ Strip(Body(text)) # <<>>
    ELSE BigParses(text) /\ ~BigNegative(text) /\ BigDigits(text) # <<>>

\* a factor of the accepted subset: Number, identifier, negation, Pow(identifier, Number)
RECURSIVE AcceptedFactor(_)
AcceptedFactor(f) ==
    CASE f.t = "Number" -> IntegerLiteral(f.text)
      [] f.t = "ID" -> TRUE
      [] f.t = "Op" /\ f.op = "Neg" -> Len(f.args) = 1 /\ AcceptedFactor(f.args[1])
      [] f.t = "Op" /\ f.op = "Pow" ->
            /\ Len(f.args) = 2
            /\ f.args[1].t = "ID"
            /\ f.args[2].t = "Number"
            /\ PositiveLiteral(f.args[2].text)
      [] OTHER -> FALSE

AcceptedProduct(p) ==
    IF p.t = "Op" /\ p.op = "Mul" THEN \A i \in 1..Len(p.args) : AcceptedFactor(p.args[i])
    ELSE AcceptedFactor(p)

AcceptedTerm(term) ==
    IF term.t = "Op" /\ term.op = "Neg" /\ Len(term.args) = 1
    THEN AcceptedProduct(term.args[1])
    ELSE AcceptedProduct(term)

\* a token tree of the accepted subset
AcceptedTree(tok) ==
    \A i \in 1..Len(TokTopTerms(tok)) : AcceptedTerm(TokTopTerms(tok)[i])

\* the literals a walk of the tree reads
RECURSIVE LiteralsOf(_)
LiteralsOfAll(ts) ==
    UNION { LiteralsOf(ts[i]) : i \in 1..Len(ts) }
LiteralsOf(tok) ==
    IF tok.t = "Number" THEN {tok.text} ELSE LiteralsOfAll(tok.args)

\* C17: a finished call of Token::to_polynomial has accepted its tree exactly
\* when the tree is of the accepted subset (Number, identifier, negation,
\* product, sum, Pow(identifier, Number) with a strictly positive exponent),
\* and has returned an error for every other tree; the error of a tree whose
\* only fault is an unparsable literal is the parse error.
C17_TokenAcceptsExactlySubset ==
    TokFinished =>
        /\ AcceptedTree(ttok) => tres.status = "ok"
        /\ ~AcceptedTree(ttok) => tres.status = "err"
        /\ tres.err \in {ErrNoDigits, ErrInvalidDigit} =>
              \E l \in LiteralsOf(ttok) : ~IntegerLiteral(l)

(***************************************************************************)
(* The two entries of to_polynomial side by side: a call of                *)
(* AtomView::to_polynomial or a call of Token::to_polynomial.              *)
(***************************************************************************)
InitConv == InitPoly \/ InitTok

NextConv == NextPoly \/ NextTok

SpecConv == InitConv /\ [][NextConv]_vars

\* the polynomial after parse_term on each of the summands ts, in order
RECURSIVE TokAppendAll(_, _, _, _, _)
TokAppendAll(ts, vs, E, build, poly) ==
    IF ts = <<>> THEN poly
    ELSE LET t == TokParseTerm(Head(ts), vs, E, build)
         IN  IF TermStopped(t) THEN poly
             ELSE TokAppendAll(Tail(ts), vs, E, build,
                               AppendMonomial(poly, t.coeff, t.exps))

\* the number of top-level summands of an expression and of a token tree
SummandCount(e) == IF e.k = "Add" THEN Len(e.args) ELSE 1
TokSummandCount(tok) == IF tok.t = "Op" /\ tok.op = "Add" THEN Len(tok.args) ELSE 1

ExprEndsInError == ppc = "done" /\ pres.status = "err"
TokEndsInError == tpc = "done" /\ tres.status = "err"

\* C18: in both entries a call that ends in an error has made no polynomial
\* and has appended no monomial, and a call that succeeds has appended once
\* per top-level summand.
C18_ValidationPrecedesConstruction ==
    /\ ExprEndsInError => ~ppoly.made /\ pappends = 0
    /\ TokEndsInError => ~tpoly.made /\ tappends = 0
    /\ (ppc = "done" /\ pres.status = "ok") => pappends = SummandCount(pexpr)
    /\ (tpc = "done" /\ tres.status = "ok") => tappends = TokSummandCount(ttok)

\* C18 (amended): validation precedes construction in the expression-tree
\* entry only: there a call that ends in an error has made no polynomial and
\* appended nothing.  The token-tree entry makes its polynomial first and
\* reads its summands in one pass: a call that ends in an error has appended
\* one monomial per summand before the failing one, to a polynomial that is
\* not returned.  In both entries the monomials are appended one per
\* top-level summand, left to right, and a call that succeeds has appended
\* once per summand.
C18_ValidationPrecedesConstructionAmended ==
    /\ ExprEndsInError => ~ppoly.made /\ pappends = 0
    /\ TokEndsInError =>
          /\ tpoly.made
          /\ tappends = tidx - 1
          /\ tidx <= TokSummandCount(ttok)
          /\ TokParseTerm(TokTopTerms(ttok)[tidx], tvarmap, twidth, tbuild).err = tres.err
    /\ ppoly.made =>
          /\ pappends = pidx - 1
          /\ ppoly = ParseTerms(SubSeq(TopTerms(pexpr), 1, pappends), pvars, pwidth,
                                pbuild, NewPoly(pvars)).poly
    /\ tpoly.made =>
          /\ tappends = tidx - 1
          /\ tpoly = TokAppendAll(SubSeq(TokTopTerms(ttok), 1, tappends), tvarmap,
                                  twidth, tbuild, NewPoly(tvarmap))
    /\ (ppc = "done" /\ pres.status = "ok") => pappends = SummandCount(pexpr)
    /\ (tpc = "done" /\ tres.status = "ok") => tappends = TokSummandCount(ttok)

\* a token call has ended in an error after it appended a monomial
C18_Witness == TokEndsInError /\ tappends > 0 /\ tpoly.terms # <<>>

(***************************************************************************)
(* AtomView::expand (the normalizer's expansion primitive, an external     *)
(* collaborator): products of sums and positive integer powers of sums are *)
(* multiplied out and the result is normalized; true is returned when the  *)
(* output differs from the input.                                          *)
(***************************************************************************)
SumArgs(e) == IF e.k = "Add" THEN e.args ELSE <<e>>

\* the products of one summand with each summand of bs
RECURSIVE TimesEach(_, _)
TimesEach(a, bs) ==
    IF bs = <<>> THEN <<>>
    ELSE <<Mul(<<a, Head(bs)>>)>> \o TimesEach(a, Tail(bs))

\* the products of each summand of as with each summand of bs
RECURSIVE CrossTerms(_, _)
CrossTerms(as, bs) ==
    IF as = <<>> THEN <<>>
    ELSE TimesEach(Head(as), bs) \o CrossTerms(Tail(as), bs)

Distribute(a, b) ==
    IF a.k # "Add" /\ b.k # "Add" THEN Normalize(Mul(<<a, b>>))
    ELSE Normalize(Add(CrossTerms(SumArgs(a), SumArgs(b))))

RECURSIVE ExpandPower(_, _)
ExpandPower(b, n) ==
    IF n = 1 THEN b ELSE Distribute(ExpandPower(b, n - 1), b)

RECURSIVE ExpandTree(_)
RECURSIVE ExpandProduct(_, _)
ExpandProduct(fs, acc) ==
    IF fs = <<>> THEN acc
    ELSE ExpandProduct(Tail(fs), Distribute(acc, ExpandTree(Head(fs))))

RECURSIVE ExpandEach(_)
ExpandEach(s) ==
    IF s = <<>> THEN <<>> ELSE <<ExpandTree(Head(s))>> \o ExpandEach(Tail(s))

ExpandTree(e) ==
    CASE e.k = "Pow" ->
            IF IsSmallInt(e.args[2]) /\ e.args[2].n >= 2 /\ ExpandTree(e.args[1]).k = "Add"
            THEN ExpandPower(ExpandTree(e.args[1]), e.args[2].n)
            ELSE Normalize(Pow(ExpandTree(e.args[1]), e.args[2]))
      [] e.k = "Mul" -> ExpandProduct(Tail(e.args), ExpandTree(Head(e.args)))
      [] e.k = "Add" -> Normalize(Add(ExpandEach(e.args)))
      [] OTHER -> e

\* the mutant reports a change whatever the output
ExpandMut(e) == [changed |-> TRUE, out |-> ExpandTree(e)]

\* self.expand(workspace, state, &mut h): the boolean returned and h
Expand(e) == [changed |-> ExpandTree(e) # e, out |-> ExpandTree(e)]

(***************************************************************************)
(* RationalPolynomial (an external collaborator): a value is the tree of   *)
(* the collaborator calls that build it, [op, poly, args, n].              *)
(***************************************************************************)
Rational(op, poly, args, n) == [op |-> op, poly |-> poly, args |-> args, n |-> n]

\* RationalPolynomial::from_num_den(num, MultivariatePolynomial::one(field), out_field)
FromNumDen(num) == Rational("from_num_den", num, <<>>, Zero)

\* RationalPolynomialField::new(out_field).one()
RatOne == Rational("one", NoPoly, <<>>, Zero)

\* RationalPolynomial::new(out_field, var_map)
RatNew(varMap) ==
    Rational("new", NewPoly(IF varMap.given THEN varMap.ids ELSE <<>>), <<>>, Zero)

RatInv(r) == Rational("inv", NoPoly, <<r>>, Zero)
RatPow(r, n) == Rational("pow", NoPoly, <<r>>, n)

\* r.unify_var_map(&mut arg_r): r and arg_r afterwards
UnifiedAcc(r, arg) == Rational("unify_var_map", NoPoly, <<r, arg>>, Zero)
UnifiedArg(r, arg) == Rational("unify_var_map_arg", NoPoly, <<r, arg>>, Zero)

\* &r * &arg_r and &r + &arg_r
RingProduct(a, b) == Rational("mul", NoPoly, <<a, b>>, Zero)
RingSum(a, b) == Rational("add", NoPoly, <<a, b>>, Zero)

\* r.unify_var_map(&mut arg_r); &r * &arg_r
RatMul(r, arg) == RingProduct(UnifiedAcc(r, arg), UnifiedArg(r, arg))

\* r.unify_var_map(&mut arg_r); &r + &arg_r
RatAdd(r, arg) == RingSum(UnifiedAcc(r, arg), UnifiedArg(r, arg))

RatOk(v) == [status |-> "ok", err |-> "", val |-> v]
RatErr(msg) == [status |-> "err", err |-> msg, val |-> NoRational]
RatPanic == [status |-> "panic", err |-> "", val |-> NoRational]

(***************************************************************************)
(* AtomView::to_rational_polynomial (lines 288-381).                       *)
(***************************************************************************)
ErrPowerNumber == "Power needs to be a number"
ErrExponentInteger == "Exponent needs to be an integer"
ErrExponentFraction == "Exponent cannot be a faction"
ErrFunctionsNotAllowed == "Functions not allowed"

\* nn < 0, nn = 1 and nn = -1 for the numerator nn of a Natural
NumerNegative(num) ==
    IF KeptAsDigits(num) THEN Head(num.args) = "-"
    ELSE num.hi < 0 \/ (num.hi = 0 /\ num.n < 0)
NumerIsOne(num) == ~KeptAsDigits(num) /\ num.hi = 0 /\ num.n = 1
NumerIsMinusOne(num) == ~KeptAsDigits(num) /\ num.hi = 0 /\ num.n = -1

\* lines 335, 337: `-nn as u64` for nn < 0 and `nn as u64` otherwise, as
\* [panic, val].  The negation of i64::MIN overflows: it panics in a build
\* with overflow checks and wraps to i64::MIN in one without, which `as u64`
\* turns into 2^63.
NumerMagnitude(num, build) ==
    IF num = MinI64
    THEN [panic |-> build = "debug", val |-> Node("Num", 0, "Natural", 0, 0, 1, MinI64Digits)]
    ELSE IF KeptAsDigits(num)
    THEN [panic |-> FALSE, val |-> Node("Num", 0, "Natural", 0, 0, 1, Strip(Body(num.args)))]
    ELSE [panic |-> FALSE, val |-> NumberNode("Natural", Big(FALSE, Numerator(num).cs), 1)]

PowPlan(kind, err, target, n) == [kind |-> kind, err |-> err, target |-> target, n |-> n]

\* lines 315-358: what the Pow arm does before its recursive call
PowArm(e) ==
    LET base == e.args[1]
        exp == e.args[2]
    IN  IF exp.k # "Num" THEN PowPlan("err", ErrPowerNumber, Zero, Zero)
        ELSE IF exp.nt # "Natural" THEN PowPlan("err", ErrExponentInteger, Zero, Zero)
        ELSE IF exp.d # 1 THEN PowPlan("err", ErrExponentFraction, Zero, Zero)
        ELSE IF ~NumerIsMinusOne(exp) /\ ~NumerIsOne(exp)
        THEN IF ~Expand(e).changed
             THEN PowPlan(IF NumerNegative(exp) THEN "inv_pow" ELSE "pow", "", base, exp)
             ELSE PowPlan("expanded", "", Expand(e).out, Zero)
        ELSE IF NumerNegative(exp) THEN PowPlan("inv", "", base, Zero)
        ELSE PowPlan("base", "", base, Zero)

\* lines 333-350: what the Pow arm does with the value r of its recursive
\* call; plan.n is the exponent nn.  r.inv() is called before `-nn`.
PowFinish(plan, r, build) ==
    CASE plan.kind = "inv_pow" ->
            IF NumerMagnitude(plan.n, build).panic THEN RatPanic
            ELSE RatOk(RatPow(RatInv(r), NumerMagnitude(plan.n, build).val))
      [] plan.kind = "pow" -> RatOk(RatPow(r, NumerMagnitude(plan.n, build).val))
      [] plan.kind = "inv" -> RatOk(RatInv(r))
      [] OTHER -> RatOk(r)

\* lines 361, 371: the value a fold starts from
FoldStart(e, varMap) == IF e.k = "Mul" THEN RatOne ELSE RatNew(varMap)

\* the mutant multiplies and adds without unify_var_map
FoldStepMut(e, r, arg) == IF e.k = "Mul" THEN RingProduct(r, arg) ELSE RingSum(r, arg)

\* lines 365-366, 375-376: one step of a fold
FoldStep(e, r, arg) == IF e.k = "Mul" THEN RatMul(r, arg) ELSE RatAdd(r, arg)

RECURSIVE ToRationalPolynomial(_, _, _, _)
RECURSIVE RatFold(_, _, _, _, _, _)
\* lines 362-367, 372-377: the loop over the arguments, stopping at the first `?`
RatFold(e, args, r, E, varMap, build) ==
    IF args = <<>> THEN RatOk(r)
    ELSE LET a == ToRationalPolynomial(Head(args), E, varMap, build)
         IN  IF a.status # "ok" THEN a
             ELSE RatFold(e, Tail(args), FoldStep(e, r, a.val), E, varMap, build)

ToRationalPolynomial(e, E, varMap, build) ==
    LET fast == ToPolynomial(e, E, varMap, build)
    IN  IF fast.status = "panic" THEN RatPanic
        ELSE IF fast.status = "ok" THEN RatOk(FromNumDen(fast.poly))
        ELSE CASE e.k \in {"Num", "Var"} -> RatErr(fast.err)
               [] e.k = "Pow" ->
                     LET plan == PowArm(e)
                     IN  IF plan.kind = "err" THEN RatErr(plan.err)
                         ELSE LET r == ToRationalPolynomial(plan.target, E, varMap, build)
                              IN  IF r.status # "ok" THEN r
                                  ELSE PowFinish(plan, r.val, build)
               [] e.k = "Fun" -> RatErr(ErrFunctionsNotAllowed)
               [] OTHER -> RatFold(e, e.args, FoldStart(e, varMap), E, varMap, build)

(***************************************************************************)
(* Inputs of the rational conversion, in canonical form.                   *)
(***************************************************************************)
MaxDepth == 6

XPlusOne == Add(<<VX, One>>)
XMinusOne == Add(<<VX, MinusOne>>)
XPlusY == Add(<<VX, VY>>)
FXPlusOne == Add(<<FunFX, One>>)

RatBases == { VX, XPlusOne, XPlusY, FunFX, FXPlusOne, Pow(XPlusOne, Num(2)) }

RatExponents ==
    { Num(-2), Num(-1), Num(2), Num(3), Rat(1, 2), VY, LargeNum(LimbBase, 0, 1),
      FiniteFieldNum(2), BigNat(1, 0), MinI64 }

RatPows ==
    { Pow(b, n) : b \in RatBases, n \in RatExponents }
    \cup { Pow(VX, Num(U8Max)), Pow(VX, BigNat(LimbBase, 0)), Pow(VZ, Num(-1)) }

RatMuls ==
    { Mul(<<VX, Pow(XPlusOne, Num(-1))>>), Mul(<<Pow(VX, Num(-1)), Pow(VY, Num(-2))>>),
      Mul(<<VX, FunFX>>), Mul(<<VX, XPlusOne>>), Mul(<<Pow(XPlusOne, Num(2)), VY>>),
      Mul(<<Pow(VX, Num(-1)), FunFX>>), Mul(<<VY, Pow(VX, MinI64)>>) }

RatAdds ==
    { Add(<<Pow(XPlusOne, Num(-1)), Pow(XMinusOne, Num(-1))>>), Add(<<VX, FunFX>>),
      Add(<<Pow(XPlusY, Num(2)), Pow(VX, Num(-1))>>),
      Add(<<Pow(VX, Num(-1)), FunFX, VY>>) }

RatLeaves == { VX, VZ, Num(2), FiniteFieldNum(2) }

RatInputs == { Normalize(e) : e \in RatLeaves \cup RatPows \cup RatMuls \cup RatAdds }

RatVarMaps ==
    { [given |-> FALSE, ids |-> <<>>], [given |-> TRUE, ids |-> <<SymX, SymY>>] }

(***************************************************************************)
(* to_rational_polynomial as a state machine: the calls in progress are a  *)
(* stack of frames [e, mode, i, acc, plan]; a step is what one call does   *)
(* up to its next recursive call or its return.                            *)
(***************************************************************************)
NoPlan == PowPlan("none", "", Zero, Zero)

Frame(e, mode, i, acc, plan) ==
    [e |-> e, mode |-> mode, i |-> i, acc |-> acc, plan |-> plan]

Entered(e) == Frame(e, "enter", 0, NoRational, NoPlan)

Top == rstack[Len(rstack)]
Callers == SubSeq(rstack, 1, Len(rstack) - 1)

\* line 304: the fast routine on the expression of the innermost call
FastPath == ToPolynomial(Top.e, rwidth, rvarmap, rbuild)

Entering == rpc = "running" /\ rstack # <<>> /\ Top.mode = "enter"
Resuming(mode) == rpc = "running" /\ rstack # <<>> /\ Top.mode = mode

InitRat ==
    /\ rpc = "running"
    /\ rexpr \in RatInputs
    /\ rwidth \in {"u8", "u32"}
    /\ rbuild \in {"debug", "release"}
    /\ rvarmap \in RatVarMaps
    /\ rstack = <<Entered(rexpr)>>
    /\ rret = NoReturn
    /\ rexpands = <<>>
    /\ rres = NoReturn
    /\ DerivIdle
    /\ PolyIdle
    /\ FromIdle
    /\ TokIdle

\* lines 304-307
RatFastPath ==
    /\ Entering
    /\ FastPath.status = "ok"
    /\ rstack' = Callers
    /\ rret' = RatOk(FromNumDen(FastPath.poly))
    /\ UNCHANGED <<rpc, rexpr, rwidth, rbuild, rvarmap, rexpands, rres>>
    /\ UNCHANGED exceptRat

\* line 304: to_polynomial aborts
RatFastPathPanics ==
    /\ Entering
    /\ FastPath.status = "panic"
    /\ rpc' = "panic"
    /\ rres' = RatPanic
    /\ UNCHANGED <<rexpr, rwidth, rbuild, rvarmap, rstack, rret, rexpands>>
    /\ UNCHANGED exceptRat

\* lines 311, 322, 353, 356, 359: the call returns an error of its own
RatRejects ==
    /\ Entering
    /\ FastPath.status = "err"
    /\ \/ /\ Top.e.k \in {"Num", "Var"}
          /\ rret' = RatErr(FastPath.err)
       \/ /\ Top.e.k = "Fun"
          /\ rret' = RatErr(ErrFunctionsNotAllowed)
       \/ /\ Top.e.k = "Pow"
          /\ PowArm(Top.e).kind = "err"
          /\ rret' = RatErr(PowArm(Top.e).err)
    /\ rstack' = Callers
    /\ UNCHANGED <<rpc, rexpr, rwidth, rbuild, rvarmap, rexpands, rres>>
    /\ UNCHANGED exceptRat

\* lines 325-351: the Pow arm calls itself on the base or on the expanded form
RatPowDescends ==
    /\ Entering
    /\ FastPath.status = "err"
    /\ Top.e.k = "Pow"
    /\ PowArm(Top.e).kind # "err"
    /\ Len(rstack) < MaxDepth
    /\ rstack' = Callers \o <<Frame(Top.e, "pow", 0, NoRational, PowArm(Top.e)),
                              Entered(PowArm(Top.e).target)>>
    /\ rexpands' = IF PowArm(Top.e).kind = "expanded" THEN Append(rexpands, Top.e)
                   ELSE rexpands
    /\ UNCHANGED <<rpc, rexpr, rwidth, rbuild, rvarmap, rret, rres>>
    /\ UNCHANGED exceptRat

\* lines 361-364, 371-374: a fold calls itself on its first argument
RatFoldStarts ==
    /\ Entering
    /\ FastPath.status = "err"
    /\ Top.e.k \in {"Mul", "Add"}
    /\ Len(rstack) < MaxDepth
    /\ rstack' = Callers \o <<Frame(Top.e, "fold", 1, FoldStart(Top.e, rvarmap), NoPlan),
                              Entered(Top.e.args[1])>>
    /\ UNCHANGED <<rpc, rexpr, rwidth, rbuild, rvarmap, rret, rexpands, rres>>
    /\ UNCHANGED exceptRat

\* lines 331, 342, 347, 350, 364, 374: the error of a recursive call is returned
RatPropagates ==
    /\ rpc = "running"
    /\ rstack # <<>>
    /\ Top.mode \in {"pow", "fold"}
    /\ rret.status = "err"
    /\ rstack' = Callers
    /\ UNCHANGED <<rpc, rexpr, rwidth, rbuild, rvarmap, rret, rexpands, rres>>
    /\ UNCHANGED exceptRat

\* lines 333-350: the Pow arm returns
RatPowReturns ==
    /\ Resuming("pow")
    /\ rret.status = "ok"
    /\ PowFinish(Top.plan, rret.val, rbuild).status = "ok"
    /\ rstack' = Callers
    /\ rret' = PowFinish(Top.plan, rret.val, rbuild)
    /\ UNCHANGED <<rpc, rexpr, rwidth, rbuild, rvarmap, rexpands, rres>>
    /\ UNCHANGED exceptRat

\* line 335: the negation of i64::MIN aborts, after r.inv()
RatPowPanics ==
    /\ Resuming("pow")
    /\ rret.status = "ok"
    /\ PowFinish(Top.plan, rret.val, rbuild).status = "panic"
    /\ rpc' = "panic"
    /\ rres' = RatPanic
    /\ UNCHANGED <<rexpr, rwidth, rbuild, rvarmap, rstack, rret, rexpands>>
    /\ UNCHANGED exceptRat

\* lines 365-366, 375-376, then the next argument
RatFoldContinues ==
    /\ Resuming("fold")
    /\ rret.status = "ok"
    /\ Top.i < Len(Top.e.args)
    /\ rstack' = Callers \o <<Frame(Top.e, "fold", Top.i + 1,
                                    FoldStep(Top.e, Top.acc, rret.val), NoPlan),
                              Entered(Top.e.args[Top.i + 1])>>
    /\ rret' = NoReturn
    /\ UNCHANGED <<rpc, rexpr, rwidth, rbuild, rvarmap, rexpands, rres>>
    /\ UNCHANGED exceptRat

\* lines 368, 378: a fold returns
RatFoldReturns ==
    /\ Resuming("fold")
    /\ rret.status = "ok"
    /\ Top.i = Len(Top.e.args)
    /\ rstack' = Callers
    /\ rret' = RatOk(FoldStep(Top.e, Top.acc, rret.val))
    /\ UNCHANGED <<rpc, rexpr, rwidth, rbuild, rvarmap, rexpands, rres>>
    /\ UNCHANGED exceptRat

\* the outermost call has returned
RatReturn ==
    /\ rpc = "running"
    /\ rstack = <<>>
    /\ rpc' = "done"
    /\ rres' = rret
    /\ UNCHANGED <<rexpr, rwidth, rbuild, rvarmap, rstack, rret, rexpands>>
    /\ UNCHANGED exceptRat

NextRat ==
    \/ RatFastPath
    \/ RatFastPathPanics
    \/ RatRejects
    \/ RatPowDescends
    \/ RatFoldStarts
    \/ RatPropagates
    \/ RatPowReturns
    \/ RatPowPanics
    \/ RatFoldContinues
    \/ RatFoldReturns
    \/ RatReturn

SpecRat == InitRat /\ [][NextRat]_vars

\* a call in progress can take a step: its innermost call is entering, or is
\* resuming with the value its callee returned
CanStep ==
    \/ rstack = <<>>
    \/ Top.mode = "enter"
    \/ Top.mode \in {"pow", "fold"} /\ rret.status \in {"ok", "err"}

\* the scheduling of a sequential program: a call in progress keeps taking
\* steps.  This is WF_vars(NextRat) with the enabling condition of NextRat
\* written as the state predicate rpc = "running".
SpecRatLive == SpecRat /\ ([]<>(rpc # "running") \/ []<><<NextRat>>_vars)

(***************************************************************************)
(* Token::to_rational_polynomial (lines 609-693): the conversion of a      *)
(* token tree.  It tries Token::to_polynomial, converts Inv, Pow with the  *)
(* exponent "-1", Mul and Add over the tokens, and passes every other      *)
(* shape to the expression-tree entry through the parser's to_atom.        *)
(***************************************************************************)
\* lines 578-602: the polynomial after parse_term on each of the summands ts,
\* as [status, err, poly]; the `?` returns the first error
RECURSIVE TokParseTerms(_, _, _, _, _)
TokParseTerms(ts, vs, E, build, poly) ==
    IF ts = <<>> THEN [status |-> "ok", err |-> "", poly |-> poly]
    ELSE LET t == TokParseTerm(Head(ts), vs, E, build)
         IN  IF t.panic THEN [status |-> "panic", err |-> "", poly |-> NoPoly]
             ELSE IF t.err # "" THEN [status |-> "err", err |-> t.err, poly |-> NoPoly]
             ELSE TokParseTerms(Tail(ts), vs, E, build,
                                AppendMonomial(poly, t.coeff, t.exps))

\* lines 437-603
TokToPolynomial(tok, E, vs, build) ==
    TokParseTerms(TokTopTerms(tok), vs, E, build, NewPoly(vs))

AtomOk(e) == [status |-> "ok", err |-> "", atom |-> e]
AtomErr(msg) == [status |-> "err", err |-> msg, atom |-> Zero]
AtomPanic == [status |-> "panic", err |-> "", atom |-> Zero]

\* the expression of a token tree, before normalization: a number literal is
\* read as an i64, else as an integer of any size; a name is its variable;
\* Neg[a] is a * -1 and Inv[a] is a^-1.  A tree with an operator of the
\* wrong number of arguments is not the tree of any text.
RECURSIVE RawAtom(_)
RECURSIVE RawAtoms(_, _)
RawAtoms(ts, done) ==
    IF ts = <<>> THEN AtomOk(done)
    ELSE LET a == RawAtom(Head(ts))
         IN  IF a.status # "ok" THEN a
             ELSE RawAtoms(Tail(ts), Append(done, a.atom))

RawAtom(tok) ==
    CASE tok.t = "Number" ->
            IF FitsI64(tok.text) THEN AtomOk(NaturalOf(tok.text))
            ELSE IF BigParses(tok.text) THEN AtomOk(LargeOf(tok.text))
            ELSE AtomErr(ErrParseNumber(tok.text))
      [] tok.t = "ID" -> AtomOk(Var(GetOrInsertVar(tok.text)))
      [] tok.t = "Fn" ->
            LET as == RawAtoms(tok.args, <<>>)
            IN  IF as.status # "ok" THEN as
                ELSE AtomOk(Fun(GetOrInsertVar(tok.text), as.atom))
      [] OTHER ->
            IF \/ tok.op \in {"Neg", "Inv"} /\ Len(tok.args) # 1
               \/ tok.op = "Pow" /\ Len(tok.args) # 2
            THEN AtomPanic
            ELSE LET as == RawAtoms(tok.args, <<>>)
                 IN  IF as.status # "ok" THEN as
                     ELSE CASE tok.op = "Neg" -> AtomOk(Mul(<<as.atom[1], MinusOne>>))
                            [] tok.op = "Inv" -> AtomOk(Pow(as.atom[1], MinusOne))
                            [] tok.op = "Pow" -> AtomOk(Pow(as.atom[1], as.atom[2]))
                            [] tok.op = "Mul" -> AtomOk(Mul(as.atom))
                            [] OTHER -> AtomOk(Add(as.atom))

\* Token::to_atom (the parser): the clean expression of a token tree
ToAtom(tok) ==
    LET built == RawAtom(tok)
    IN  IF built.status # "ok" THEN built ELSE AtomOk(Normalize(built.atom))

\* lines 631-692: the arm a token takes when Token::to_polynomial has
\* rejected it.  assert!(args.len() == 1) (line 638) and the unchecked
\* args[1] (line 647) abort the call; Inv[a] and Pow[a, "-1"] invert the
\* conversion of a; every shape but a leaf, a product and a sum goes through
\* to_atom.
TokArm(tok) ==
    CASE tok.t \in {"Number", "ID"} -> "leaf"
      [] tok.t = "Op" /\ tok.op = "Inv" ->
            IF Len(tok.args) # 1 THEN "abort" ELSE "inverse"
      [] tok.t = "Op" /\ tok.op = "Pow" ->
            IF Len(tok.args) < 2 THEN "abort"
            ELSE IF tok.args[2] = TNumber(<<"-", "1">>) THEN "inverse"
            ELSE "atom"
      [] tok.t = "Op" /\ tok.op \in {"Mul", "Add"} -> "fold"
      [] OTHER -> "atom"

\* lines 653-660, 683-690: to_atom, then the expression-tree entry with
\* Some(var_map)
ViaAtom(tok, E, vs, build) ==
    LET a == ToAtom(tok)
    IN  CASE a.status = "panic" -> RatPanic
          [] a.status = "err" -> RatErr(a.err)
          [] OTHER -> ToRationalPolynomial(a.atom, E, [given |-> TRUE, ids |-> vs], build)

\* lines 641, 650: Ok(r.inv()) on the value of the recursive call
InverseOf(r) == IF r.status = "ok" THEN RatOk(RatInv(r.val)) ELSE r

\* lines 663, 673: the value a fold over tokens starts from
TokFoldStart(tok, vs) ==
    IF tok.op = "Mul" THEN RatOne ELSE RatNew([given |-> TRUE, ids |-> vs])

\* lines 667-668, 677-678: one step of a fold over tokens
TokFoldStep(tok, r, arg) == IF tok.op = "Mul" THEN RatMul(r, arg) ELSE RatAdd(r, arg)

RECURSIVE TokToRationalPolynomial(_, _, _, _)
RECURSIVE TokRatFold(_, _, _, _, _, _)
\* lines 664-669, 674-679: the loop over the arguments, stopping at the first `?`
TokRatFold(tok, args, r, E, vs, build) ==
    IF args = <<>> THEN RatOk(r)
    ELSE LET a == TokToRationalPolynomial(Head(args), E, vs, build)
         IN  IF a.status # "ok" THEN a
             ELSE TokRatFold(tok, Tail(args), TokFoldStep(tok, r, a.val), E, vs, build)

\* lines 609-693: the whole call
TokToRationalPolynomial(tok, E, vs, build) ==
    LET fast == TokToPolynomial(tok, E, vs, build)
        arm == TokArm(tok)
    IN  IF fast.status = "panic" THEN RatPanic
        ELSE IF fast.status = "ok" THEN RatOk(FromNumDen(fast.poly))
        ELSE CASE arm = "leaf" -> RatErr(fast.err)
               [] arm = "abort" -> RatPanic
               [] arm = "inverse" ->
                     InverseOf(TokToRationalPolynomial(tok.args[1], E, vs, build))
               [] arm = "fold" ->
                     TokRatFold(tok, tok.args, TokFoldStart(tok, vs), E, vs, build)
               [] OTHER -> ViaAtom(tok, E, vs, build)

(***************************************************************************)
(* Inputs of the token entry: trees of a parser, and trees with an         *)
(* operator of the wrong number of arguments.                              *)
(***************************************************************************)
TInv(a) == TOp("Inv", <<a>>)
TXPlusOne == TOp("Add", <<TX, TNumber(<<"1">>)>>)

TokRatLeaves ==
    { TX, TY, TID(<<"z">>), TNumber(<<"2">>), TNumber(<<"1", "x">>),
      TNumber(<<"-", "1">>) }

TokRatInverses ==
    { TInv(TX), TInv(TInv(TX)), TInv(TXPlusOne), TInv(TNumber(<<"1", "x">>)),
      TOp("Inv", <<TX, TY>>), TOp("Inv", <<>>),
      TPow(TX, TNumber(<<"-", "1">>)), TPow(TXPlusOne, TNumber(<<"-", "1">>)),
      TPow(TOp("Inv", <<>>), TNumber(<<"-", "1">>)),
      TOp("Pow", <<TX>>), TOp("Pow", <<>>) }

TokRatPows ==
    { TPow(TX, TNumber(<<"2">>)), TPow(TX, TNumber(<<"-", "2">>)),
      TPow(TX, TNumber(<<"-", "0", "1">>)), TPow(TXPlusOne, TNumber(<<"2">>)),
      TPow(TXPlusOne, TNumber(<<"-", "2">>)), TPow(TX, TY),
      TPow(TX, TNumber(<<"1", "x">>)), TPow(TX, TNumber(BeyondI64)),
      TPow(TX, TNumber(MinI64Text)),
      TPow(TOp("Add", <<TFn(<<"f">>, <<TX>>), TNumber(<<"1">>)>>), TNumber(<<"-", "2">>)) }

TokRatOthers ==
    { TNeg(TX), TNeg(TInv(TX)), TOp("Neg", <<>>), TFn(<<"f">>, <<TX>>),
      TNeg(TOp("Mul", <<TPow(TNumber(<<"2">>), TNumber(<<"2">>)),
                        TPow(TX, TNumber(<<"2", "5", "5">>))>>)),
      TFn(<<"f">>, <<TNumber(<<"1", "x">>)>>) }

TokRatFactors ==
    { TX, TNumber(<<"2">>), TInv(TX), TInv(TY), TPow(TX, TNumber(<<"-", "1">>)),
      TPow(TX, TNumber(<<"-", "2">>)), TOp("Inv", <<TX, TY>>), TOp("Pow", <<TX>>),
      TFn(<<"f">>, <<TX>>), TNumber(<<"1", "x">>), TXPlusOne }

TokRatFolds ==
    { TOp(op, <<a, b>>) : op \in {"Mul", "Add"}, a \in TokRatFactors, b \in TokRatFactors }

TokRatInputs ==
    TokRatLeaves \cup TokRatInverses \cup TokRatPows \cup TokRatOthers \cup TokRatFolds

(***************************************************************************)
(* Token::to_rational_polynomial as a state machine: the calls in progress *)
(* are the stack of frames of the expression-tree entry, with frames that  *)
(* hold a token: "token" on entry, "match" once Token::to_polynomial has   *)
(* rejected the token (its error is kept in the frame), "tinv" and "tfold" *)
(* while a recursive call runs.  A token that goes through to_atom leaves  *)
(* its frame to the expression-tree entry, whose steps are those of        *)
(* NextRat.  The caller always passes a variable map.                      *)
(***************************************************************************)
TokEntered(tok) == Frame(tok, "token", 0, NoRational, NoPlan)

\* line 626: the fast routine on the token of the innermost call
TokFastPath == TokToPolynomial(Top.e, rwidth, rvarmap.ids, rbuild)

TokEntering == rpc = "running" /\ rstack # <<>> /\ Top.mode = "token"
Matching(arm) ==
    rpc = "running" /\ rstack # <<>> /\ Top.mode = "match" /\ TokArm(Top.e) = arm

InitTokRat ==
    /\ rpc = "running"
    /\ rexpr \in TokRatInputs
    /\ rwidth \in {"u8", "u32"}
    /\ rbuild \in {"debug", "release"}
    /\ rvarmap \in { [given |-> TRUE, ids |-> vs] : vs \in TokVarMaps }
    /\ rstack = <<TokEntered(rexpr)>>
    /\ rret = NoReturn
    /\ rexpands = <<>>
    /\ rres = NoReturn
    /\ DerivIdle
    /\ PolyIdle
    /\ FromIdle
    /\ TokIdle

\* lines 626-629
TokRatFastPath ==
    /\ TokEntering
    /\ TokFastPath.status = "ok"
    /\ rstack' = Callers
    /\ rret' = RatOk(FromNumDen(TokFastPath.poly))
    /\ UNCHANGED <<rpc, rexpr, rwidth, rbuild, rvarmap, rexpands, rres>>
    /\ UNCHANGED exceptRat

\* line 626: Token::to_polynomial aborts
TokRatFastPathPanics ==
    /\ TokEntering
    /\ TokFastPath.status = "panic"
    /\ rpc' = "panic"
    /\ rres' = RatPanic
    /\ UNCHANGED <<rexpr, rwidth, rbuild, rvarmap, rstack, rret, rexpands>>
    /\ UNCHANGED exceptRat

\* lines 626, 631: Token::to_polynomial rejects the token, and the call goes
\* on to the match
TokRatFastPathFails ==
    /\ TokEntering
    /\ TokFastPath.status = "err"
    /\ rstack' = Callers \o <<Frame(Top.e, "match", 0, NoRational,
                                    PowPlan("none", TokFastPath.err, Zero, Zero))>>
    /\ UNCHANGED <<rpc, rexpr, rwidth, rbuild, rvarmap, rret, rexpands, rres>>
    /\ UNCHANGED exceptRat

\* lines 632-636: a number or a name returns the error of to_polynomial
TokRatRejects ==
    /\ Matching("leaf")
    /\ rstack' = Callers
    /\ rret' = RatErr(Top.plan.err)
    /\ UNCHANGED <<rpc, rexpr, rwidth, rbuild, rvarmap, rexpands, rres>>
    /\ UNCHANGED exceptRat

\* lines 638, 647: the assertion on Inv and the index args[1] on Pow abort
TokRatAborts ==
    /\ Matching("abort")
    /\ rpc' = "panic"
    /\ rres' = RatPanic
    /\ UNCHANGED <<rexpr, rwidth, rbuild, rvarmap, rstack, rret, rexpands>>
    /\ UNCHANGED exceptRat

\* lines 639-640, 648-649: Inv[a] and Pow[a, "-1"] call themselves on a
TokRatInvDescends ==
    /\ Matching("inverse")
    /\ Len(rstack) < MaxDepth
    /\ rstack' = Callers \o <<Frame(Top.e, "tinv", 0, NoRational, NoPlan),
                              TokEntered(Top.e.args[1])>>
    /\ UNCHANGED <<rpc, rexpr, rwidth, rbuild, rvarmap, rret, rexpands, rres>>
    /\ UNCHANGED exceptRat

\* lines 641, 650: Ok(r.inv())
TokRatInvReturns ==
    /\ Resuming("tinv")
    /\ rret.status = "ok"
    /\ rstack' = Callers
    /\ rret' = RatOk(RatInv(rret.val))
    /\ UNCHANGED <<rpc, rexpr, rwidth, rbuild, rvarmap, rexpands, rres>>
    /\ UNCHANGED exceptRat

\* lines 663-666, 673-676: a fold calls itself on its first argument
TokRatFoldStarts ==
    /\ Matching("fold")
    /\ Len(rstack) < MaxDepth
    /\ rstack' = Callers \o <<Frame(Top.e, "tfold", 1, TokFoldStart(Top.e, rvarmap.ids),
                                    NoPlan),
                              TokEntered(Top.e.args[1])>>
    /\ UNCHANGED <<rpc, rexpr, rwidth, rbuild, rvarmap, rret, rexpands, rres>>
    /\ UNCHANGED exceptRat

\* lines 640, 649, 666, 676: the error of a recursive call is returned
TokRatPropagates ==
    /\ rpc = "running"
    /\ rstack # <<>>
    /\ Top.mode \in {"tinv", "tfold"}
    /\ rret.status = "err"
    /\ rstack' = Callers
    /\ UNCHANGED <<rpc, rexpr, rwidth, rbuild, rvarmap, rret, rexpands, rres>>
    /\ UNCHANGED exceptRat

\* lines 667-668, 677-678, then the next argument
TokRatFoldContinues ==
    /\ Resuming("tfold")
    /\ rret.status = "ok"
    /\ Top.i < Len(Top.e.args)
    /\ rstack' = Callers \o <<Frame(Top.e, "tfold", Top.i + 1,
                                    TokFoldStep(Top.e, Top.acc, rret.val), NoPlan),
                              TokEntered(Top.e.args[Top.i + 1])>>
    /\ rret' = NoReturn
    /\ UNCHANGED <<rpc, rexpr, rwidth, rbuild, rvarmap, rexpands, rres>>
    /\ UNCHANGED exceptRat

\* lines 670, 680: a fold returns
TokRatFoldReturns ==
    /\ Resuming("tfold")
    /\ rret.status = "ok"
    /\ Top.i = Len(Top.e.args)
    /\ rstack' = Callers
    /\ rret' = RatOk(TokFoldStep(Top.e, Top.acc, rret.val))
    /\ UNCHANGED <<rpc, rexpr, rwidth, rbuild, rvarmap, rexpands, rres>>
    /\ UNCHANGED exceptRat

\* lines 653-660, 683-690: the call becomes a call of the expression-tree
\* entry on the expression of the token
TokRatToAtom ==
    /\ Matching("atom")
    /\ ToAtom(Top.e).status = "ok"
    /\ rstack' = Callers \o <<Entered(ToAtom(Top.e).atom)>>
    /\ UNCHANGED <<rpc, rexpr, rwidth, rbuild, rvarmap, rret, rexpands, rres>>
    /\ UNCHANGED exceptRat

\* lines 653, 683: the `?` returns the error of to_atom
TokRatToAtomFails ==
    /\ Matching("atom")
    /\ ToAtom(Top.e).status = "err"
    /\ rstack' = Callers
    /\ rret' = RatErr(ToAtom(Top.e).err)
    /\ UNCHANGED <<rpc, rexpr, rwidth, rbuild, rvarmap, rexpands, rres>>
    /\ UNCHANGED exceptRat

\* lines 653, 683: to_atom aborts
TokRatToAtomPanics ==
    /\ Matching("atom")
    /\ ToAtom(Top.e).status = "panic"
    /\ rpc' = "panic"
    /\ rres' = RatPanic
    /\ UNCHANGED <<rexpr, rwidth, rbuild, rvarmap, rstack, rret, rexpands>>
    /\ UNCHANGED exceptRat

NextTokRat ==
    \/ TokRatFastPath
    \/ TokRatFastPathPanics
    \/ TokRatFastPathFails
    \/ TokRatRejects
    \/ TokRatAborts
    \/ TokRatInvDescends
    \/ TokRatInvReturns
    \/ TokRatFoldStarts
    \/ TokRatPropagates
    \/ TokRatFoldContinues
    \/ TokRatFoldReturns
    \/ TokRatToAtom
    \/ TokRatToAtomFails
    \/ TokRatToAtomPanics
    \/ NextRat

SpecTokRat == InitTokRat /\ [][NextTokRat]_vars

\* the call of the state machine ends as the whole call does
TokRatAgrees ==
    rpc \in {"done", "panic"} =>
        /\ rres.status = TokToRationalPolynomial(rexpr, rwidth, rvarmap.ids, rbuild).status
        /\ rres = TokToRationalPolynomial(rexpr, rwidth, rvarmap.ids, rbuild)

(***************************************************************************)
(* Vocabulary of the properties of the rational conversion.                *)
(***************************************************************************)
RatFinished == rpc \in {"done", "panic"}

\* the conversion of a sub-expression under the arguments of the call
Conv(e) == ToRationalPolynomial(e, rwidth, rvarmap, rbuild)

\* the polynomial fast path returns an error for the expression
FastRejects(e) == ToPolynomial(e, rwidth, rvarmap, rbuild).status = "err"

\* a Num holding an integer, of any magnitude
IntegerExponent(ex) == ex.k = "Num" /\ ex.nt \in {"Natural", "Large"} /\ ex.d = 1

\* a result with a collaborator call applied to its value; an error is unchanged
ThenInverse(r) == IF r.status = "ok" THEN RatOk(RatInv(r.val)) ELSE r
ThenPower(r, n) == IF r.status = "ok" THEN RatOk(RatPow(r.val, n)) ELSE r

\* C19: for a Pow(b, e) the fast path rejects: an error when e is not a Num
\* holding an integer n; conv(b) for n = 1; the inverse of conv(b) for n = -1;
\* otherwise the conversion of the expanded form when expand reports a change,
\* else conv(b)^|n| for n > 0 and (conv(b)^-1)^|n| for n < 0; an error of
\* conv(b) is returned unchanged.
C19_PowArm ==
    (rpc = "done" /\ rexpr.k = "Pow" /\ FastRejects(rexpr)) =>
        LET b == rexpr.args[1]
            ex == rexpr.args[2]
        IN  IF ~IntegerExponent(ex) THEN rres.status = "err"
            ELSE IF NumerIsOne(ex) THEN rres = Conv(b)
            ELSE IF NumerIsMinusOne(ex) THEN rres = ThenInverse(Conv(b))
            ELSE IF Expand(rexpr).changed THEN rres = Conv(Expand(rexpr).out)
            ELSE IF NumerNegative(ex)
            THEN rres = ThenPower(ThenInverse(Conv(b)), NumerMagnitude(ex, rbuild).val)
            ELSE rres = ThenPower(Conv(b), NumerMagnitude(ex, rbuild).val)

\* the direct children of an expression
IsChild(c, e) == \E i \in 1..Len(Children(e)) : e.args[i] = c

\* each call in progress was made on a child of its caller's expression, or,
\* by a Pow arm whose expand reported a change, on the expanded form
CallsDescend ==
    \A i \in 1..(Len(rstack) - 1) :
        \/ rstack[i].plan.kind = "expanded"
              /\ rstack[i + 1].e = Expand(rstack[i].e).out
              /\ rstack[i + 1].e # rstack[i].e
        \/ rstack[i].plan.kind # "expanded" /\ IsChild(rstack[i + 1].e, rstack[i].e)

\* no Pow node is being expanded twice in one chain of calls
NoExpansionTwice ==
    \A i, j \in 1..Len(rstack) :
        (i # j /\ rstack[i].plan.kind = "expanded" /\ rstack[j].plan.kind = "expanded")
            => rstack[i].e # rstack[j].e

\* C20: to_rational_polynomial terminates on every finite expression and
\* returns a rational polynomial or an error: at every point the call in
\* progress can step, or the call has returned a rational polynomial or an
\* error; every call in progress is on a child of its caller's expression or
\* on an expanded form, and no Pow node is expanded twice in one chain of
\* calls.
C20_Terminates ==
    /\ CallsDescend
    /\ NoExpansionTwice
    /\ \/ rpc = "running" /\ CanStep
       \/ rpc = "done" /\ rres.status \in {"ok", "err"}

\* every call ends, under SpecRatLive: it returns, or it aborts
RatEnds == <>RatFinished

\* a call aborts only in the fast path or, in a build with overflow checks,
\* at `-nn` for nn = i64::MIN
AbortsOnlyThere ==
    rpc = "panic" =>
        \/ FastPath.status = "panic"
        \/ rbuild = "debug" /\ Top.mode = "pow" /\ Top.plan.n = MinI64

\* the identity a fold starts from: 1 over outField for Mul, 0 for Add
Identity(e) == IF e.k = "Mul" THEN RatOne ELSE RatNew(rvarmap)

\* the ring operation on two operands that unify_var_map has given one variable map
Combined(e, r, arg) ==
    IF e.k = "Mul" THEN RingProduct(UnifiedAcc(r, arg), UnifiedArg(r, arg))
    ELSE RingSum(UnifiedAcc(r, arg), UnifiedArg(r, arg))

\* the left-to-right fold over the first k converted children
RECURSIVE FoldedTo(_, _)
FoldedTo(e, k) ==
    IF k = 0 THEN Identity(e)
    ELSE Combined(e, FoldedTo(e, k - 1), Conv(e.args[k]).val)

\* the first child whose conversion is not a value, 0 if there is none
FirstFailing(e) ==
    IF \A i \in 1..Len(e.args) : Conv(e.args[i]).status = "ok" THEN 0
    ELSE CHOOSE i \in 1..Len(e.args) :
            /\ Conv(e.args[i]).status # "ok"
            /\ \A j \in 1..(i - 1) : Conv(e.args[j]).status = "ok"

\* a fold in progress has converted the children before its current one, all
\* to values, and holds their fold; its current child is the call above it
FoldInOrder(j) ==
    rstack[j].mode = "fold" =>
        /\ rstack[j].i \in 1..Len(rstack[j].e.args)
        /\ \A k \in 1..(rstack[j].i - 1) : Conv(rstack[j].e.args[k]).status = "ok"
        /\ rstack[j].acc = FoldedTo(rstack[j].e, rstack[j].i - 1)
        /\ j < Len(rstack) => rstack[j + 1].e = rstack[j].e.args[rstack[j].i]

\* C21: when the fast path fails on a Mul (Add), the result is the
\* left-to-right fold of the product (sum) over the converted children from
\* the identity 1 (0), both operands passed through unify_var_map before each
\* operation; the first child whose conversion fails gives its error to the
\* whole call, and no later child is converted.
C21_FoldOverChildren ==
    /\ \A j \in 1..Len(rstack) : FoldInOrder(j)
    /\ (rpc = "done" /\ rexpr.k \in {"Mul", "Add"} /\ FastRejects(rexpr)) =>
          IF FirstFailing(rexpr) = 0
          THEN rres = RatOk(FoldedTo(rexpr, Len(rexpr.args)))
          ELSE rres = Conv(rexpr.args[FirstFailing(rexpr)]) /\ rres.status = "err"

\* a fold has returned the error of a child that is neither its first nor its last
C21_Witness ==
    /\ rpc = "done"
    /\ rexpr.k \in {"Mul", "Add"}
    /\ FastRejects(rexpr)
    /\ rres.status = "err"
    /\ FirstFailing(rexpr) > 1
    /\ FirstFailing(rexpr) < Len(rexpr.args)

\* C22: after from_polynomial returns, for every polynomial (the zero
\* polynomial and a polynomial of one monomial included), the top-level node
\* written into out has its dirty flag set.  from_polynomial does not set
\* the flag itself, so this fails wherever the helpers do not set it.
C22_TopLevelDirty == fpc \in {"written", "back"} => fdirty

====
